---------------------------- MODULE Spec2Model ----------------------------
(***************************************************************************)
(* Verification model of the deforested array evaluator                   *)
(* (src/arrays/darray/darray.py): the operation tape kept by              *)
(* DeforestedArray handles and the stack machine of evaluate().           *)
(*                                                                         *)
(* Array values are [kind, el]: kind is the dtype kind of the buffer and   *)
(* el the sequence of its elements.  Every element is a pair <<n, d>>, the *)
(* rational n/d in lowest terms with d > 0; <<1,0>>, <<-1,0>> and <<0,0>>  *)
(* are +inf, -inf and nan.  Booleans are <<0,1>> and <<1,1>>, integers     *)
(* <<n,1>> with n kept within IntBits bits (two's complement wrap).        *)
(***************************************************************************)
EXTENDS Integers, Sequences, FiniteSets, TLC

\* Width of the integer kinds in the model (the program's arrays are int64).
IntBits == 4

\* Number of handles that operator applications may create in one behaviour.
MaxDerived == 3

Modulus == 2 ^ IntBits
Half == Modulus \div 2

Wrap(x) == ((x + Half) % Modulus) - Half

Abs(x) == IF x < 0 THEN -x ELSE x
Sign(x) == IF x < 0 THEN -1 ELSE IF x = 0 THEN 0 ELSE 1

\* floor(a / b) for b # 0, whatever the signs
FloorDiv(a, b) ==
    IF b > 0 THEN a \div b ELSE (-a) \div (-b)

RECURSIVE Gcd(_, _)
Gcd(a, b) == IF b = 0 THEN a ELSE Gcd(b, a % b)

\* the pair <<n, d>> in lowest terms with d >= 0; d = 0 keeps only the sign
Norm(n, d) ==
    IF d = 0 THEN <<Sign(n), 0>>
    ELSE LET s == IF d < 0 THEN -1 ELSE 1
             g == Gcd(Abs(n), Abs(d))
         IN  <<(s * n) \div g, (s * d) \div g>>

NaN == <<0, 0>>
IsNaN(x) == x = NaN
IsInf(x) == x[2] = 0 /\ x[1] # 0
IsFinite(x) == x[2] # 0
IsIntegral(x) == x[2] = 1

FromInt(n) == <<n, 1>>
FromBool(b) == IF b THEN <<1, 1>> ELSE <<0, 1>>

----------------------------------------------------------------------------
(* Integer kernels: n-parts of two integer elements, result wrapped.       *)

RECURSIVE PowW(_, _)
PowW(a, b) == IF b = 0 THEN 1 ELSE Wrap(a * PowW(a, b - 1))

IntFloorDiv(a, b) == IF b = 0 THEN 0 ELSE Wrap(FloorDiv(a, b))
IntMod(a, b) == IF b = 0 THEN 0 ELSE a - b * FloorDiv(a, b)

IntLShift(a, b) == IF b >= 0 /\ b < IntBits THEN Wrap(a * (2 ^ b)) ELSE 0
IntRShift(a, b) ==
    IF b >= 0 /\ b < IntBits THEN FloorDiv(a, 2 ^ b)
    ELSE IF a < 0 THEN -1 ELSE 0

\* bitwise kernels on the two's complement representation
RECURSIVE BitsOp(_, _, _, _)
BitsOp(f, x, y, k) ==
    IF k = 0 THEN 0
    ELSE LET bx == x % 2
             by == y % 2
             b  == CASE f = "&" -> IF bx = 1 /\ by = 1 THEN 1 ELSE 0
                      [] f = "|" -> IF bx = 1 \/ by = 1 THEN 1 ELSE 0
                      [] f = "^" -> IF bx # by THEN 1 ELSE 0
         IN  b + 2 * BitsOp(f, x \div 2, y \div 2, k - 1)

IntBitwise(f, a, b) == Wrap(BitsOp(f, a % Modulus, b % Modulus, IntBits))

----------------------------------------------------------------------------
(* Floating kernels on <<n, d>> pairs.                                      *)

FNeg(x) == <<-x[1], x[2]>>

FAdd(x, y) ==
    IF IsInf(x) /\ IsInf(y)
    THEN IF x = y THEN x ELSE NaN
    ELSE Norm(x[1] * y[2] + y[1] * x[2], x[2] * y[2])

FSub(x, y) == FAdd(x, FNeg(y))
FMul(x, y) == Norm(x[1] * y[1], x[2] * y[2])
FDiv(x, y) == Norm(x[1] * y[2], x[2] * y[1])

\* -1, 0, 1 as x is below, equal to, above y; neither is nan
FCmp(x, y) ==
    IF IsInf(x) /\ IsInf(y) THEN Sign(x[1] - y[1])
    ELSE Sign(x[1] * y[2] - y[1] * x[2])

FFloor(x) == <<FloorDiv(x[1], x[2]), 1>>

\* npy_divmod: the floor quotient and the remainder with the divisor's sign
FFloorDiv(x, y) ==
    IF IsNaN(x) \/ IsNaN(y) THEN NaN
    ELSE IF y = <<0, 1>> THEN FDiv(x, y)
    ELSE IF IsInf(x) THEN NaN
    ELSE IF IsInf(y)
         THEN IF x[1] = 0 \/ Sign(x[1]) = Sign(y[1]) THEN <<0, 1>> ELSE <<-1, 1>>
    ELSE FFloor(FDiv(x, y))

FMod(x, y) ==
    IF IsNaN(x) \/ IsNaN(y) THEN NaN
    ELSE IF y = <<0, 1>> THEN NaN
    ELSE IF IsInf(x) THEN NaN
    ELSE IF IsInf(y)
         THEN IF x[1] = 0 \/ Sign(x[1]) = Sign(y[1]) THEN x ELSE y
    ELSE FSub(x, FMul(y, FFloor(FDiv(x, y))))

\* x ** k for an integral exponent element y = <<k, 1>>
FPow(x, y) ==
    LET k == y[1] IN
    IF k = 0 THEN <<1, 1>>
    ELSE IF k > 0 THEN Norm(x[1] ^ k, x[2] ^ k)
    ELSE Norm(x[2] ^ (-k), x[1] ^ (-k))


----------------------------------------------------------------------------
(* The numpy layer the evaluator calls: dtype kinds, casting, the ufuncs.  *)

\* bin_op_to_np: the 18 binary symbols
BinSyms == {"+", "&", "==", "//", ">=", ">", "<=", "<<", "<", "%", "*", "!=",
            "|", "**", ">>", "-", "/", "^"}

\* op_map_r: the symbols that have a reflected method __r<op>__
RSyms == {"+", "&", "//", "<<", "%", "*", "|", "**", ">>", "-", "/", "^"}

\* func_map
FuncNames == {"abs", "bool"}

CmpSyms == {"==", "!=", "<", "<=", ">=", ">"}
BitSyms == {"&", "|", "^", "<<", ">>"}
LogicalSyms == {"+", "*", "&", "|", "^"}

Kinds == {"bool", "int8", "int64", "float64"}

Rank(k) ==
    CASE k = "bool" -> 0
      [] k = "uint8" -> 1
      [] k = "int8" -> 1
      [] k = "int64" -> 2
      [] k = "float64" -> 3

\* np.can_cast(from, to, casting='safe') on the kinds of the model
can_cast(from, to) ==
    CASE from = "bool" -> TRUE
      [] from = "uint8" -> to \in {"uint8", "int64", "float64"}
      [] OTHER -> to # "uint8" /\ to # "bool" /\ Rank(from) <= Rank(to)

\* np.min_scalar_type: the dtype of an array, the smallest type that holds a
\* Python integer constant (the constants of the model are 0..255)
mscalar(v) == IF v.kind = "pyint" THEN "uint8" ELSE v.kind

\* dtype the two inputs of a ufunc are promoted to; a Python integer takes
\* the array's integer or floating dtype and makes a boolean array int64
Promote(kl, kr) ==
    CASE kl = "pyint" -> IF kr = "bool" THEN "int64" ELSE kr
      [] kr = "pyint" -> IF kl = "bool" THEN "int64" ELSE kl
      [] OTHER -> IF Rank(kl) >= Rank(kr) THEN kl ELSE kr

\* dtype of the result the ufunc of sym produces, or the error its type
\* resolution raises
ResultKind(sym, kl, kr) ==
    LET p == Promote(kl, kr) IN
    CASE sym = "/" -> "float64"
      [] sym \in CmpSyms -> "bool"
      [] sym \notin CmpSyms /\ sym # "/" /\ p = "bool" ->
            IF sym \in LogicalSyms THEN "bool"
            ELSE IF sym = "-" THEN "TypeError"
            ELSE "int8"
      [] sym \notin CmpSyms /\ sym # "/" /\ p = "float64" ->
            IF sym \in BitSyms THEN "TypeError" ELSE "float64"
      [] OTHER -> p

\* element i of an operand, a constant being broadcast
At(v, i) == IF Len(v.el) = 1 THEN v.el[1] ELSE v.el[i]
Width(lv, rv) == IF Len(lv.el) >= Len(rv.el) THEN Len(lv.el) ELSE Len(rv.el)

CmpElem(sym, x, y) ==
    IF IsNaN(x) \/ IsNaN(y) THEN FromBool(sym = "!=")
    ELSE LET c == FCmp(x, y) IN
         FromBool(CASE sym = "==" -> c = 0
                    [] sym = "!=" -> c # 0
                    [] sym = "<"  -> c < 0
                    [] sym = "<=" -> c <= 0
                    [] sym = ">=" -> c >= 0
                    [] sym = ">"  -> c > 0)

FloatElem(sym, x, y) ==
    CASE sym = "+"  -> FAdd(x, y)
      [] sym = "-"  -> FSub(x, y)
      [] sym = "*"  -> FMul(x, y)
      [] sym = "//" -> FFloorDiv(x, y)
      [] sym = "%"  -> FMod(x, y)
      [] sym = "**" -> FPow(x, y)

IntElem(sym, a, b) ==
    FromInt(CASE sym = "+"  -> Wrap(a + b)
              [] sym = "-"  -> Wrap(a - b)
              [] sym = "*"  -> Wrap(a * b)
              [] sym = "//" -> IntFloorDiv(a, b)
              [] sym = "%"  -> IntMod(a, b)
              [] sym = "**" -> IF b < 0 THEN 0 ELSE PowW(a, b)
              [] sym = "<<" -> IntLShift(a, b)
              [] sym = ">>" -> IntRShift(a, b)
              [] sym \in {"&", "|", "^"} -> IntBitwise(sym, a, b))

BoolElem(sym, a, b) ==
    FromBool(CASE sym = "+" -> a = 1 \/ b = 1
               [] sym = "*" -> a = 1 /\ b = 1
               [] sym = "&" -> a = 1 /\ b = 1
               [] sym = "|" -> a = 1 \/ b = 1
               [] sym = "^" -> a # b)

\* one element of the loop of sym on inputs promoted to kind p
Elem(sym, p, x, y) ==
    CASE sym = "/" -> FDiv(x, y)
      [] sym \in CmpSyms -> CmpElem(sym, x, y)
      [] sym \notin CmpSyms /\ sym # "/" /\ p = "float64" -> FloatElem(sym, x, y)
      [] sym \notin CmpSyms /\ sym # "/" /\ p = "bool" /\ sym \in LogicalSyms ->
            BoolElem(sym, x[1], y[1])
      [] OTHER -> IntElem(sym, x[1], y[1])

Ok(kind, el) == [st |-> "ok", kind |-> kind, el |-> el]
Raise(err) == [st |-> err, kind |-> "none", el |-> <<>>]

\* bin_op_to_np[sym](lv, rv): the result in a fresh array, or the error raised
NpBinary(sym, lv, rv) ==
    LET rk == ResultKind(sym, lv.kind, rv.kind)
        p  == Promote(lv.kind, rv.kind)
        n  == Width(lv, rv)
    IN  IF rk = "TypeError" THEN Raise("TypeError")
        ELSE IF sym = "**" /\ rk \in {"int8", "int64"}
                /\ \E i \in 1..n : At(rv, i)[1] < 0
        THEN Raise("ValueError")
        ELSE Ok(rk, [i \in 1..n |-> Elem(sym, p, At(lv, i), At(rv, i))])

\* bin_op_to_np[sym](lv, rv, out=<array of kind outkind>, casting='safe'):
\* the result must cast safely to the dtype of out
CastOutUnsafe(r, outkind) ==
    IF r.st # "ok" THEN r ELSE Ok(outkind, r.el)

\* the cast of a ufunc result into the array given as out, casting='safe'
CastOut(r, outkind) ==
    IF r.st # "ok" THEN r
    ELSE IF ~can_cast(r.kind, outkind) THEN Raise("TypeError")
    ELSE Ok(outkind, r.el)

NpBinaryOut(sym, lv, rv, outkind) == CastOut(NpBinary(sym, lv, rv), outkind)


----------------------------------------------------------------------------
(* The operation tape: DeforestedArray handles and their backing lists.    *)

VARIABLES
    handles,      \* the DeforestedArray objects, by identity: ops and optypes
                  \* (identities of their lists), index, refcount, data
    opsHeap,      \* the list objects bound to some handle's ops
    optypesHeap,  \* the list objects bound to some handle's optypes
    bufs,         \* the data arrays of the leaf handles
    expr,         \* per handle, the expression the caller wrote to obtain it
    born,         \* per handle, its visible entries when it was returned
    ret,          \* what the latest call returned or raised
    vocab,        \* the operators and constants the calling program uses
    plan          \* the calls a scripted caller still has to make, and the
                  \* expression its result is compared with

tapeVars == <<handles, opsHeap, optypesHeap, bufs, expr, born, ret, vocab, plan>>

\* The other programs of the repository that are modelled below; each
\* specification runs one program and leaves the state of the others idle.
VARIABLES
    _array,       \* _Heap._array: the numpy array holding the heap
    size,         \* _Heap.size: the number of values on the heap
    _downsize,    \* _Heap._downsize
    hret          \* what the latest _Heap call did: its outcome, and the
                  \* values that were on the heap before it

heapVars == <<_array, size, _downsize, hret>>

VARIABLES
    thread_count, \* Queuer.thread_count
    queue,        \* Queuer.queue: the items (i, call) not yet taken, in order
    global_kw,    \* Queuer.global_kw
    calls,        \* Queuer.calls
    results,      \* Queuer.results
    threads,      \* Queuer.threads: per worker, where it is in
                  \* thread_queue_func and the item it has taken
    qpc,          \* where the main thread is: outside run(), or in it
    qrun          \* about the latest run(): how many items were queued for it, how
                  \* often each call was made in
                  \* it and whether a call raised

queuerVars == <<thread_count, queue, global_kw, calls, results, threads, qpc, qrun>>

VARIABLES
    part_data,    \* the array given to partition_on_value
    part_sep,     \* the separator given to it
    part_ret      \* what the call returned or raised, and the array before it

partVars == <<part_data, part_sep, part_ret>>

VARIABLES
    wself,        \* a windowed_chunked object: size, iterable, skip
    wgen,         \* the generator __iter__ returned: where it is suspended
                  \* in _chunked_iter, its deque and the item it holds
    wret          \* what the latest iter() or next() returned or raised, and
                  \* the elements the iterable had at construction

chunkVars == <<wself, wgen, wret>>

\* what a specification of one program leaves unchanged
elsewhere == <<heapVars, queuerVars, partVars, chunkVars>>
besidesHeap == <<tapeVars, queuerVars, partVars, chunkVars>>
besidesQueuer == <<tapeVars, heapVars, partVars, chunkVars>>
besidesPart == <<tapeVars, heapVars, queuerVars, chunkVars>>
besidesChunk == <<tapeVars, heapVars, queuerVars, partVars>>

vars == <<tapeVars, heapVars, queuerVars, partVars, chunkVars>>

NoCall == [op |-> "none"]

HeapIdle == _array = <<>> /\ size = 0 /\ _downsize = FALSE /\ hret = NoCall

QueuerIdle ==
    /\ thread_count = 0 /\ queue = <<>> /\ global_kw = <<>> /\ calls = <<>>
    /\ results = <<>> /\ threads = <<>> /\ qpc = NoCall /\ qrun = NoCall

PartIdle == part_data = <<>> /\ part_sep = 0 /\ part_ret = NoCall

ChunkIdle == wself = NoCall /\ wgen = NoCall /\ wret = NoCall

ElsewhereIdle == HeapIdle /\ QueuerIdle /\ PartIdle /\ ChunkIdle

OP_TRACK == -1
VAR == 0
UNI_OP == 1
BIN_OP == 2
BIN_OP_R == 3
FUNC == 4
FUNCTYPES == {UNI_OP, BIN_OP, BIN_OP_R, FUNC}

\* entries of an ops list: a data array, a DeforestedArray, a constant,
\* an operator symbol or function name
ArrEntry(b) == [t |-> "arr", n |-> b, s |-> ""]
TapeEntry(h) == [t |-> "tape", n |-> h, s |-> ""]
ConstEntry(c) == [t |-> "const", n |-> c, s |-> ""]
SymEntry(s) == [t |-> "sym", n |-> 0, s |-> s]

\* data of the leaves a behaviour may start with
LeafArrays ==
    << [kind |-> "int64", el |-> <<FromInt(-2), FromInt(0), FromInt(3)>>],
       [kind |-> "int64", el |-> <<FromInt(1), FromInt(2), FromInt(-3)>>],
       [kind |-> "int64", el |-> <<FromInt(3), FromInt(-1), FromInt(2)>>],
       [kind |-> "int64", el |-> <<FromInt(2), FromInt(5), FromInt(1)>>] >>

HandleIds == 1..Len(handles)
IsLeaf(h) == handles[h].data # 0

ops(h) == opsHeap[handles[h].ops]
optypes(h) == optypesHeap[handles[h].optypes]

\* the entries a handle may read: ops[0:index] and optypes[0:index]
VisibleIn(hs, oh, th, h) ==
    [ops |-> SubSeq(oh[hs[h].ops], 1, hs[h].index),
     optypes |-> SubSeq(th[hs[h].optypes], 1, hs[h].index)]

Visible(h) == VisibleIn(handles, opsHeap, optypesHeap, h)

\* DeforestedArray(data=...): a leaf over the data array b
NewLeaf(b) ==
    [ops |-> b, optypes |-> b, index |-> 1, refcount |-> 0, data |-> b]

\* self.__class__(ops, index=..., optypes=...): data is np.asarray(None)
NewHandle(l, index) ==
    [ops |-> l, optypes |-> l, index |-> index, refcount |-> 0, data |-> 0]

\* the test `self.index == len(self.ops)` of the three update methods
AtEnd(h) == handles[h].index = Len(ops(h))

AppendToOverwriting(h) ==
    [l |-> handles[h].ops, fresh |-> FALSE,
     ops |-> SubSeq(ops(h), 1, handles[h].index),
     optypes |-> SubSeq(optypes(h), 1, handles[h].index)]

\* the lists the new entries are appended to: the handle's own when it is at
\* the end of them, else copies of ops[:index] and optypes[:index]
AppendTo(h) ==
    IF AtEnd(h)
    THEN [l |-> handles[h].ops, fresh |-> FALSE,
          ops |-> ops(h), optypes |-> optypes(h)]
    ELSE [l |-> Len(opsHeap) + 1, fresh |-> TRUE,
          ops |-> SubSeq(ops(h), 1, handles[h].index),
          optypes |-> SubSeq(optypes(h), 1, handles[h].index)]

Store(heap, l, list) ==
    IF l > Len(heap) THEN Append(heap, list) ELSE [heap EXCEPT ![l] = list]

\* the type tag logged for the other operand
OtherType(other) == IF other.t = "tape" THEN OP_TRACK ELSE VAR

CountRefForgotten(hs, other) == hs

\* other.refcount += 1 when other is a DeforestedArray
CountRef(hs, other) ==
    IF other.t = "tape"
    THEN [hs EXCEPT ![other.n].refcount = @ + 1]
    ELSE hs

update_binary_other_first(h, other, symbol, direction_constant) ==
    LET a == AppendTo(h)
        newops == (<<other>> \o a.ops) \o <<SymEntry(symbol)>>
        newtypes == (<<OtherType(other)>> \o a.optypes) \o <<direction_constant>>
    IN  /\ opsHeap' = Store(opsHeap, a.l, newops)
        /\ optypesHeap' = Store(optypesHeap, a.l, newtypes)
        /\ handles' = Append(CountRef(handles, other),
                             NewHandle(a.l, handles[h].index + 2))

\* __update_binary__(self, other, symbol, direction_constant)
update_binary(h, other, symbol, direction_constant) ==
    LET a == AppendTo(h)
        newops == a.ops \o <<other, SymEntry(symbol)>>
        newtypes == a.optypes \o <<OtherType(other), direction_constant>>
    IN  /\ opsHeap' = Store(opsHeap, a.l, newops)
        /\ optypesHeap' = Store(optypesHeap, a.l, newtypes)
        /\ handles' = Append(CountRef(handles, other),
                             NewHandle(a.l, handles[h].index + 2))

\* __update_func__(self, name)
\* __update_unary__(self, symbol)
update_unary(h, symbol) ==
    LET a == AppendTo(h)
    IN  /\ opsHeap' = Store(opsHeap, a.l, Append(a.ops, SymEntry(symbol)))
        /\ optypesHeap' = Store(optypesHeap, a.l, Append(a.optypes, UNI_OP))
        /\ handles' = Append(handles, NewHandle(a.l, handles[h].index + 1))

update_func(h, name) ==
    LET a == AppendTo(h)
    IN  /\ opsHeap' = Store(opsHeap, a.l, Append(a.ops, SymEntry(name)))
        /\ optypesHeap' = Store(optypesHeap, a.l, Append(a.optypes, FUNC))
        /\ handles' = Append(handles, NewHandle(a.l, handles[h].index + 1))


----------------------------------------------------------------------------
(* evaluate(): the stack machine over ops[0:index].  Arrays live in a heap *)
(* (a sequence of array values, the leaf data first); a stack item is an   *)
(* entry: an array of the heap, an unevaluated DeforestedArray, a constant. *)

\* un_op_to_np[sym](v): invert, negative, positive
NpUnary(sym, v) ==
    CASE sym = "~" ->
            IF v.kind = "float64" THEN Raise("TypeError")
            ELSE IF v.kind = "bool"
            THEN Ok("bool", [i \in 1..Len(v.el) |-> FromBool(v.el[i][1] = 0)])
            ELSE Ok(v.kind, [i \in 1..Len(v.el) |-> FromInt(Wrap(-v.el[i][1] - 1))])
      [] sym \in {"-", "+"} ->
            IF v.kind = "bool" THEN Raise("TypeError")
            ELSE IF v.kind = "float64"
            THEN Ok(v.kind, [i \in 1..Len(v.el) |->
                        IF sym = "-" THEN FNeg(v.el[i]) ELSE v.el[i]])
            ELSE Ok(v.kind, [i \in 1..Len(v.el) |->
                        IF sym = "-" THEN FromInt(Wrap(-v.el[i][1])) ELSE v.el[i]])

\* the value a resolved stack item denotes
ValueOf(item, heap) ==
    IF item.t = "const"
    THEN [kind |-> "pyint", el |-> <<FromInt(item.n)>>]
    ELSE heap[item.n]

Alloc(heap, v) == Append(heap, [kind |-> v.kind, el |-> v.el])
Write(heap, b, v) == [heap EXCEPT ![b] = [kind |-> v.kind, el |-> v.el]]

Done(item, heap, log, pushes) ==
    [st |-> "ok", v |-> item, heap |-> heap, log |-> log, pushes |-> pushes,
     at |-> 0, phase |-> ""]
Failed(err, heap, log, pushes, at, phase) ==
    [st |-> err, v |-> ArrEntry(0), heap |-> heap, log |-> log,
     pushes |-> pushes, at |-> at, phase |-> phase]

RECURSIVE evaluate(_, _)

\* `if isinstance(op, self_class): op = op.evaluate()`
Resolve(item, heap) ==
    IF item.t = "tape" THEN evaluate(item.n, heap)
    ELSE Done(item, heap, <<>>, <<>>)

PushFlagOfAnyTape(elem, optype, immutable) == optype = OP_TRACK

\* the flag pushed with an operand: (optype is OP_TRACK) and
\* (elem not in immutable)
PushFlag(elem, optype, immutable) ==
    optype = OP_TRACK /\ elem.n \notin immutable

ChooseIgnoringFlags(lmut, rmut, lv, rv) ==
    IF lv.kind # "pyint" /\ can_cast(mscalar(rv), mscalar(lv)) THEN "left"
    ELSE "fresh"

\* which operand the ufunc is asked to write into
Choose(lmut, rmut, lv, rv) ==
    IF lmut /\ can_cast(mscalar(rv), mscalar(lv)) THEN "left"
    ELSE IF rmut /\ can_cast(mscalar(lv), mscalar(rv)) THEN "right"
    ELSE "fresh"

OperandsAsPushed(optype, stack, mutability) ==
    LET n == Len(stack) IN
    [left |-> stack[n - 1], right |-> stack[n],
     lmut |-> mutability[n - 1], rmut |-> mutability[n]]

\* the two operands of a binary entry, from the top two stack items
Operands(optype, stack, mutability) ==
    LET n == Len(stack) IN
    IF optype = BIN_OP
    THEN [left |-> stack[n - 1], right |-> stack[n],
          lmut |-> mutability[n - 1], rmut |-> mutability[n]]
    ELSE [left |-> stack[n], right |-> stack[n - 1],
          lmut |-> mutability[n], rmut |-> mutability[n - 1]]

\* the ufunc call inside the try block
Attempt(sym, mode, litem, ritem, lv, rv) ==
    CASE mode = "left" ->
            IF litem.t = "arr" THEN NpBinaryOut(sym, lv, rv, lv.kind)
            ELSE Raise("TypeError")
      [] mode = "right" ->
            IF ritem.t = "arr" THEN NpBinaryOut(sym, lv, rv, rv.kind)
            ELSE Raise("TypeError")
      [] OTHER -> NpBinary(sym, lv, rv)

\* `except (TypeError, ValueError, UFuncTypeError)`
Caught(st) == st \in {"TypeError", "ValueError"}

RecoverNothing(sym, lv, rv, try) == try

\* the result of the except clause: the same ufunc without out
Recover(sym, lv, rv, try) ==
    IF Caught(try.st) THEN NpBinary(sym, lv, rv) ELSE try

\* the array the result ends in, the heap after the entry and its log record
Conclude(h, i, elem, optype, o, L, R, lv, rv, mode, try, res) ==
    LET caught == Caught(try.st)
        inplace == mode # "fresh" /\ ~caught
        out == IF inplace
               THEN IF mode = "left" THEN L.v.n ELSE R.v.n
               ELSE Len(R.heap) + 1
        entry == [h |-> h, i |-> i, sym |-> elem.s, optype |-> optype,
                  left |-> L.v, right |-> R.v,
                  lmut |-> o.lmut, rmut |-> o.rmut,
                  lval |-> lv, rval |-> rv,
                  mode |-> mode, caught |-> caught,
                  st |-> res.st, out |-> out,
                  res |-> [kind |-> res.kind, el |-> res.el]]
        log == (L.log \o R.log) \o <<entry>>
        pushes == L.pushes \o R.pushes
    IN  IF res.st # "ok"
        THEN Failed(res.st, R.heap, log, pushes, i, "ufunc")
        ELSE IF inplace
        THEN Done(ArrEntry(out), Write(R.heap, out, res), log, pushes)
        ELSE Done(ArrEntry(out), Alloc(R.heap, res), log, pushes)

TryBlock(h, i, elem, optype, o, L, R, lv, rv, mode, try) ==
    Conclude(h, i, elem, optype, o, L, R, lv, rv, mode, try,
             Recover(elem.s, lv, rv, try))

Decide(h, i, elem, optype, o, L, R, lv, rv, mode) ==
    TryBlock(h, i, elem, optype, o, L, R, lv, rv, mode,
             Attempt(elem.s, mode, L.v, R.v, lv, rv))

WithValues(h, i, elem, optype, o, L, R, lv, rv) ==
    Decide(h, i, elem, optype, o, L, R, lv, rv,
           Choose(o.lmut, o.rmut, lv, rv))

WithRight(h, i, elem, optype, o, L, R) ==
    IF R.st # "ok"
    THEN Failed(R.st, R.heap, L.log \o R.log, L.pushes \o R.pushes,
                i, "operand")
    ELSE WithValues(h, i, elem, optype, o, L, R,
                    ValueOf(L.v, R.heap), ValueOf(R.v, R.heap))

WithLeft(h, i, elem, optype, o, L) ==
    IF L.st # "ok"
    THEN Failed(L.st, L.heap, L.log, L.pushes, i, "operand")
    ELSE WithRight(h, i, elem, optype, o, L, Resolve(o.right, L.heap))

WithOperands(h, i, elem, optype, o, heap) ==
    WithLeft(h, i, elem, optype, o, Resolve(o.left, heap))

\* a BIN_OP or BIN_OP_R entry: pop two, evaluate nested tapes (the left
\* operand first), apply the ufunc in place or into a fresh array
BinaryStep(h, i, elem, optype, stack, mutability, heap) ==
    IF Len(stack) < 2 THEN Failed("IndexError", heap, <<>>, <<>>, i, "pop")
    ELSE WithOperands(h, i, elem, optype,
                      Operands(optype, stack, mutability), heap)

UnaryApply(i, flag, X, r) ==
    IF r.st # "ok"
    THEN Failed(r.st, X.heap, X.log, X.pushes, i, "unary")
    ELSE IF flag
    THEN Done(X.v, Write(X.heap, X.v.n, r), X.log, X.pushes)
    ELSE Done(ArrEntry(Len(X.heap) + 1), Alloc(X.heap, r), X.log, X.pushes)

UnaryOperand(i, elem, flag, X) ==
    IF X.st # "ok"
    THEN Failed(X.st, X.heap, X.log, X.pushes, i, "operand")
    ELSE UnaryApply(i, flag, X,
                    IF flag /\ X.v.t # "arr" THEN Raise("TypeError")
                    ELSE NpUnary(elem.s, ValueOf(X.v, X.heap)))

\* a UNI_OP entry: pop one, evaluate it if it is a tape, apply the ufunc
\* into its array if it is flagged mutable
UnaryStep(h, i, elem, stack, mutability, heap) ==
    IF Len(stack) < 1 THEN Failed("IndexError", heap, <<>>, <<>>, i, "pop")
    ELSE UnaryOperand(i, elem, mutability[Len(stack)],
                      Resolve(stack[Len(stack)], heap))

PopAllButOne(seq, k) == SubSeq(seq, 1, Len(seq) - k + 1)

\* stack.pop(), k times
Pop(seq, k) == SubSeq(seq, 1, Len(seq) - k)

RECURSIVE Walk(_, _, _, _, _, _, _, _)

\* the record of a push: the entry walked, what was pushed with which flag,
\* and the two stacks beneath it
PushOf(h, i, elem, optype, flag, stack, mutability) ==
    [h |-> h, i |-> i, elem |-> elem, optype |-> optype, flag |-> flag,
     below |-> stack, belowmut |-> mutability]

\* after an operator entry: stack.append(result); mutability.append(True)
AfterStep(h, i, stack, mutability, log, pushes, immutable, k, r) ==
    IF r.st # "ok"
    THEN Failed(r.st, r.heap, log \o r.log, pushes \o r.pushes, r.at, r.phase)
    ELSE Walk(h, i + 1, Append(Pop(stack, k), r.v),
              Append(Pop(mutability, k), TRUE), r.heap,
              log \o r.log,
              Append(pushes \o r.pushes,
                     PushOf(h, i, r.v, optypes(h)[i], TRUE,
                             Pop(stack, k), Pop(mutability, k))),
              immutable)

\* an operand entry: mutability.append(flag); stack.append(elem)
PushStep(h, i, elem, optype, stack, mutability, heap, log, pushes, immutable, flag) ==
    Walk(h, i + 1, Append(stack, elem), Append(mutability, flag), heap, log,
         Append(pushes, PushOf(h, i, elem, optype, flag, stack, mutability)),
         immutable)

FuncStepSilent(h, i, stack, mutability, heap, log, pushes, immutable) ==
    Walk(h, i + 1, stack, mutability, heap, log, pushes, immutable)

\* a FUNC entry: raise NotImplementedError("Implement FUNC case")
FuncStep(h, i, stack, mutability, heap, log, pushes, immutable) ==
    Failed("NotImplementedError", heap, log, pushes, i, "func")

Entry(h, i, elem, optype, stack, mutability, heap, log, pushes, immutable) ==
    IF optype \in FUNCTYPES
    THEN IF optype = FUNC
         THEN FuncStep(h, i, stack, mutability, heap, log, pushes, immutable)
         ELSE IF optype = UNI_OP
         THEN AfterStep(h, i, stack, mutability, log, pushes, immutable, 1,
                        UnaryStep(h, i, elem, stack, mutability, heap))
         ELSE AfterStep(h, i, stack, mutability, log, pushes, immutable, 2,
                        BinaryStep(h, i, elem, optype, stack, mutability, heap))
    ELSE PushStep(h, i, elem, optype, stack, mutability, heap, log, pushes,
                  immutable, PushFlag(elem, optype, immutable))

\* zip(islice(self.ops, self.index), islice(self.optypes, self.index)) has
\* no entry i
Exhausted(h, i) ==
    i > handles[h].index \/ i > Len(ops(h)) \/ i > Len(optypes(h))

\* the loop over zip(islice(ops, index), islice(optypes, index)) from entry
\* i on, and the final `return stack.pop()`
Walk(h, i, stack, mutability, heap, log, pushes, immutable) ==
    IF Exhausted(h, i)
    THEN IF stack = <<>>
         THEN Failed("IndexError", heap, log, pushes, i, "pop")
         ELSE Done(stack[Len(stack)], heap, log, pushes)
    ELSE Entry(h, i, ops(h)[i], optypes(h)[i], stack, mutability, heap, log,
               pushes, immutable)

ImmutableBeyondCursor(h) ==
    LET n == IF Len(ops(h)) <= Len(optypes(h)) THEN Len(ops(h))
             ELSE Len(optypes(h))
    IN  {ops(h)[i].n : i \in {j \in handles[h].index + 1..n :
                                 optypes(h)[j] = OP_TRACK}}

\* immutable = {e for e,t in zip(self.ops, self.optypes) if t is OP_TRACK}
Immutable(h) ==
    LET n == IF Len(ops(h)) <= Len(optypes(h)) THEN Len(ops(h))
             ELSE Len(optypes(h))
    IN  {ops(h)[i].n : i \in {j \in 1..n : optypes(h)[j] = OP_TRACK}}

evaluate(h, heap) == Walk(h, 1, <<>>, <<>>, heap, <<>>, <<>>, Immutable(h))


----------------------------------------------------------------------------
(* The expression a handle stands for, evaluated directly on the arrays.   *)

LeafExpr(b) == <<"leaf", b>>
ConstExpr(c) == <<"const", c>>
BinExpr(sym, l, r) == <<"bin", sym, l, r>>
FuncExpr(name, x) == <<"func", name, x>>
UnExpr(sym, x) == <<"un", sym, x>>

OperandExpr(other) ==
    IF other.t = "tape" THEN expr[other.n] ELSE ConstExpr(other.n)

\* abs(x) and x.astype(bool) of np_func_map
NpFunc(name, v) ==
    IF name = "abs"
    THEN Ok(v.kind, [i \in 1..Len(v.el) |->
                IF v.kind = "float64" THEN <<Abs(v.el[i][1]), v.el[i][2]>>
                ELSE FromInt(Wrap(Abs(v.el[i][1])))])
    ELSE Ok("bool", [i \in 1..Len(v.el) |-> FromBool(v.el[i] # <<0, 1>>)])

DirectBinary(sym, l, r) ==
    IF l.st # "ok" THEN l
    ELSE IF r.st # "ok" THEN r
    ELSE NpBinary(sym, l, r)

DirectFunc(name, x) == IF x.st # "ok" THEN x ELSE NpFunc(name, x)

DirectUnary(sym, x) == IF x.st # "ok" THEN x ELSE NpUnary(sym, x)

\* the expression e with ndarray operands and the operators of numpy
RECURSIVE Direct(_)
Direct(e) ==
    CASE e[1] = "leaf" -> Ok(LeafArrays[e[2]].kind, LeafArrays[e[2]].el)
      [] e[1] = "const" -> Ok("pyint", <<FromInt(e[2])>>)
      [] e[1] = "bin" -> DirectBinary(e[2], Direct(e[3]), Direct(e[4]))
      [] e[1] = "func" -> DirectFunc(e[2], Direct(e[3]))
      [] e[1] = "un" -> DirectUnary(e[2], Direct(e[3]))

\* the model has no irrational numbers: ** is applied only to exponents
\* whose elements are whole numbers
Whole(x) == x.st = "ok" => \A i \in 1..Len(x.el) : IsIntegral(x.el[i])
WholeExponent(e) == Whole(Direct(e))

----------------------------------------------------------------------------
(* The calls of the API as actions.                                        *)

NoValue == [kind |-> "none", el |-> <<>>]

Returned(op, h) ==
    [op |-> op, h |-> h, st |-> "ok", val |-> NoValue, log |-> <<>>,
     pushes |-> <<>>, at |-> 0, phase |-> ""]

Leaves == 1..vocab.leaves
Derived == Len(handles) - vocab.leaves
Operand == {TapeEntry(h) : h \in HandleIds} \cup {ConstEntry(c) : c \in vocab.consts}

\* what a binary operator call returned, with what it was applied to: the
\* handle, the operand, and the handle's lists before the call
Built(op, h, other, sym) ==
    [base |-> h, other |-> other, sym |-> sym, ended |-> AtEnd(h),
     list |-> ops(h), types |-> optypes(h)]
        @@ Returned(op, Len(handles) + 1)

\* tape OP other
BinaryCall(h, other, sym) ==
    /\ sym = "**" => WholeExponent(OperandExpr(other))
    /\ update_binary(h, other, sym, BIN_OP)
    /\ expr' = Append(expr, BinExpr(sym, expr[h], OperandExpr(other)))
    /\ born' = Append(born, VisibleIn(handles', opsHeap', optypesHeap', Len(handles')))
    /\ ret' = Built("binary", h, other, sym)
    /\ UNCHANGED <<bufs, vocab>>

\* const OP tape, which Python dispatches to tape.__r<op>__(const)
ReflectedCall(h, c, sym) ==
    /\ sym \in RSyms
    /\ sym = "**" => WholeExponent(expr[h])
    /\ update_binary(h, ConstEntry(c), sym, BIN_OP_R)
    /\ expr' = Append(expr, BinExpr(sym, ConstExpr(c), expr[h]))
    /\ born' = Append(born, VisibleIn(handles', opsHeap', optypesHeap', Len(handles')))
    /\ ret' = Built("reflected", h, ConstEntry(c), sym)
    /\ UNCHANGED <<bufs, vocab>>

\* abs(tape), tape.__bool__()
FuncCall(h, name) ==
    /\ update_func(h, name)
    /\ expr' = Append(expr, FuncExpr(name, expr[h]))
    /\ born' = Append(born, VisibleIn(handles', opsHeap', optypesHeap', Len(handles')))
    /\ ret' = Returned("func", Len(handles) + 1)
    /\ UNCHANGED <<bufs, vocab>>

\* the methods generated from unitary_map are
\* `def __neg__(self, symbol): return self.__update_unary__("-")`: the call
\* binds `args`, the positional arguments after self, to the one parameter
\* `symbol`.  The operator syntax (-tape, ~tape, +tape) passes none.
UnaryCall(h, sym, args) ==
    IF Len(args) # 1
    THEN /\ ret' = [Returned("unary", h) EXCEPT !.st = "TypeError"]
         /\ UNCHANGED <<handles, opsHeap, optypesHeap, bufs, expr, born, vocab>>
    ELSE /\ update_unary(h, sym)
         /\ expr' = Append(expr, UnExpr(sym, expr[h]))
         /\ born' = Append(born, VisibleIn(handles', opsHeap', optypesHeap', Len(handles')))
         /\ ret' = Returned("unary_explicit", h)
         /\ UNCHANGED <<bufs, vocab>>

\* the tapes as they are: every handle's attributes and the lists
Tapes == [handles |-> handles, ops |-> opsHeap, optypes |-> optypesHeap]

\* tape.evaluate(): the arrays of the leaves are the first entries of the
\* heap the evaluation works on
Outcome(h, r) ==
    /\ bufs' = SubSeq(r.heap, 1, Len(bufs))
    /\ ret' = [op |-> "evaluate", h |-> h, st |-> r.st,
               val |-> IF r.st = "ok" THEN r.heap[r.v.n] ELSE NoValue,
               log |-> r.log, pushes |-> r.pushes, at |-> r.at,
               phase |-> r.phase, before |-> Tapes]
    /\ UNCHANGED <<handles, opsHeap, optypesHeap, expr, born, vocab>>

EvaluateCall(h) == Outcome(h, evaluate(h, bufs))

ApplyBinary ==
    /\ plan.calls = <<>> /\ Derived < MaxDerived
    /\ \E h \in HandleIds, other \in Operand, sym \in vocab.syms :
          BinaryCall(h, other, sym)
    /\ UNCHANGED <<plan, elsewhere>>

ApplyReflected ==
    /\ plan.calls = <<>> /\ Derived < MaxDerived
    /\ \E h \in HandleIds, c \in vocab.consts, sym \in vocab.syms :
          ReflectedCall(h, c, sym)
    /\ UNCHANGED <<plan, elsewhere>>

ApplyFunc ==
    /\ plan.calls = <<>> /\ Derived < MaxDerived
    /\ \E h \in HandleIds, name \in vocab.funcs : FuncCall(h, name)
    /\ UNCHANGED <<plan, elsewhere>>

\* -tape, and tape.__neg__(0) written out
ApplyUnary ==
    /\ plan.calls = <<>> /\ Derived < MaxDerived
    /\ \E h \in HandleIds, sym \in vocab.unary, args \in {<<>>, <<0>>} :
          UnaryCall(h, sym, args)
    /\ UNCHANGED <<plan, elsewhere>>

Evaluate ==
    /\ plan.calls = <<>>
    /\ \E h \in HandleIds : EvaluateCall(h)
    /\ UNCHANGED <<plan, elsewhere>>

VocabularyU(syms, funcs, consts, leaves, unary) ==
    [syms |-> syms, funcs |-> funcs, consts |-> consts, leaves |-> leaves,
     unary |-> unary]

Vocabulary(syms, funcs, consts, leaves) ==
    VocabularyU(syms, funcs, consts, leaves, {})

\* what the calling programs of the unscripted specification use
Vocabs ==
    { Vocabulary({"+", "<"}, {}, {1}, 1),
      Vocabulary({"-", "/"}, {}, {1}, 1),
      Vocabulary({"*", "=="}, {"abs"}, {2}, 1),
      Vocabulary({"//", "%"}, {}, {2}, 1),
      Vocabulary({"**", "!="}, {"abs", "bool"}, {2}, 1),
      Vocabulary({"<<", ">>"}, {}, {1}, 1),
      Vocabulary({"&", "|"}, {}, {1}, 1),
      Vocabulary({"^", "<="}, {}, {2}, 1),
      Vocabulary({">", "-"}, {}, {1}, 1),
      Vocabulary({">=", "/"}, {}, {1}, 1),
      VocabularyU({"<"}, {"abs"}, {1}, 1, {"-", "~"}) }

InitWith(v, p) ==
    /\ vocab = v
    /\ plan = p
    /\ bufs = SubSeq(LeafArrays, 1, v.leaves)
    /\ handles = [b \in 1..v.leaves |-> NewLeaf(b)]
    /\ opsHeap = [b \in 1..v.leaves |-> <<ArrEntry(b)>>]
    /\ optypesHeap = [b \in 1..v.leaves |-> <<VAR>>]
    /\ expr = [b \in 1..v.leaves |-> LeafExpr(b)]
    /\ born = [b \in 1..v.leaves |-> [ops |-> <<ArrEntry(b)>>, optypes |-> <<VAR>>]]
    /\ ret = Returned("init", 0)
    /\ ElsewhereIdle

NoPlan == [calls |-> <<>>, ref |-> <<"none">>]

Init == \E v \in Vocabs : InitWith(v, NoPlan)

Next == ApplyBinary \/ ApplyReflected \/ ApplyFunc \/ ApplyUnary \/ Evaluate

Spec == Init /\ [][Next]_vars


----------------------------------------------------------------------------
(* Scripted callers: the expressions of test_equal_expr, each built on     *)
(* fresh leaves and evaluated once.                                        *)

BinaryOf(h, other, sym) == [op |-> "binary", h |-> h, other |-> other, sym |-> sym]
ReflectedOf(h, c, sym) == [op |-> "reflected", h |-> h, other |-> ConstEntry(c), sym |-> sym]
EvaluateOf(h) == [op |-> "evaluate", h |-> h, other |-> ConstEntry(0), sym |-> ""]

ScriptBinary ==
    /\ plan.calls # <<>> /\ Head(plan.calls).op = "binary"
    /\ BinaryCall(Head(plan.calls).h, Head(plan.calls).other, Head(plan.calls).sym)
    /\ plan' = [plan EXCEPT !.calls = Tail(@)]
    /\ UNCHANGED elsewhere

ScriptReflected ==
    /\ plan.calls # <<>> /\ Head(plan.calls).op = "reflected"
    /\ ReflectedCall(Head(plan.calls).h, Head(plan.calls).other.n, Head(plan.calls).sym)
    /\ plan' = [plan EXCEPT !.calls = Tail(@)]
    /\ UNCHANGED elsewhere

ScriptEvaluate ==
    /\ plan.calls # <<>> /\ Head(plan.calls).op = "evaluate"
    /\ EvaluateCall(Head(plan.calls).h)
    /\ plan' = [plan EXCEPT !.calls = Tail(@)]
    /\ UNCHANGED elsewhere

\* the operators test_equal_expr permutes: '+*&|^'
ChainSyms == {"+", "*", "&", "|", "^"}

Perms4 == {p \in [1..4 -> 1..4] : \A i, j \in 1..4 : i # j => p[i] # p[j]}

\* op.join(p) for a permutation p of 'abcd': ((p1 op p2) op p3) op p4
ChainPlan(sym, p) ==
    [calls |-> << BinaryOf(p[1], TapeEntry(p[2]), sym),
                  BinaryOf(5, TapeEntry(p[3]), sym),
                  BinaryOf(6, TapeEntry(p[4]), sym),
                  EvaluateOf(7) >>,
     ref |-> BinExpr(sym, BinExpr(sym, BinExpr(sym, LeafExpr(1), LeafExpr(2)),
                                  LeafExpr(3)), LeafExpr(4))]

\* "a*2 + b", "2*a + b", "a*2 + 1*b", "a*2 + b*1"
FormsA ==
    { << BinaryOf(1, ConstEntry(2), "*"), BinaryOf(3, TapeEntry(2), "+"),
         EvaluateOf(4) >>,
      << ReflectedOf(1, 2, "*"), BinaryOf(3, TapeEntry(2), "+"),
         EvaluateOf(4) >>,
      << BinaryOf(1, ConstEntry(2), "*"), ReflectedOf(2, 1, "*"),
         BinaryOf(3, TapeEntry(4), "+"), EvaluateOf(5) >>,
      << BinaryOf(1, ConstEntry(2), "*"), BinaryOf(2, ConstEntry(1), "*"),
         BinaryOf(3, TapeEntry(4), "+"), EvaluateOf(5) >> }

RefA == BinExpr("+", BinExpr("*", LeafExpr(1), ConstExpr(2)), LeafExpr(2))

\* "2*(a+b)", "2*a + 2*b", "a + b + a + b"
FormsB ==
    { << BinaryOf(1, TapeEntry(2), "+"), ReflectedOf(3, 2, "*"),
         EvaluateOf(4) >>,
      << ReflectedOf(1, 2, "*"), ReflectedOf(2, 2, "*"),
         BinaryOf(3, TapeEntry(4), "+"), EvaluateOf(5) >>,
      << BinaryOf(1, TapeEntry(2), "+"), BinaryOf(3, TapeEntry(1), "+"),
         BinaryOf(4, TapeEntry(2), "+"), EvaluateOf(5) >> }

RefB == BinExpr("*", ConstExpr(2), BinExpr("+", LeafExpr(1), LeafExpr(2)))

\* the expression of the module docstring, a + b * (c**2 + d**2), built in
\* the order Python evaluates it
DocExpr ==
    BinExpr("+", LeafExpr(1),
            BinExpr("*", LeafExpr(2),
                    BinExpr("+", BinExpr("**", LeafExpr(3), ConstExpr(2)),
                                 BinExpr("**", LeafExpr(4), ConstExpr(2)))))

DocPlan ==
    [calls |-> << BinaryOf(3, ConstEntry(2), "**"),
                  BinaryOf(4, ConstEntry(2), "**"),
                  BinaryOf(5, TapeEntry(6), "+"),
                  BinaryOf(2, TapeEntry(7), "*"),
                  BinaryOf(1, TapeEntry(8), "+"),
                  EvaluateOf(9) >>,
     ref |-> DocExpr]

InitChain ==
    \/ InitWith(Vocabulary({"+", "*", "**"}, {}, {2}, 4), DocPlan)
    \/ \E sym \in ChainSyms, p \in Perms4 :
          InitWith(Vocabulary({sym}, {}, {}, 4), ChainPlan(sym, p))
    \/ \E c \in FormsA :
          InitWith(Vocabulary({"+", "*"}, {}, {1, 2}, 2), [calls |-> c, ref |-> RefA])
    \/ \E c \in FormsB :
          InitWith(Vocabulary({"+", "*"}, {}, {1, 2}, 2), [calls |-> c, ref |-> RefB])

NextChain == ScriptBinary \/ ScriptReflected \/ ScriptEvaluate

SpecChain == InitChain /\ [][NextChain]_vars


----------------------------------------------------------------------------
(* Properties.                                                              *)

IsEval == ret.op = "evaluate"
Returns == IsEval /\ ret.st = "ok"
LogIdx == 1..Len(ret.log)

\* the outcome r of evaluate and the outcome d of the direct computation
\* agree: the same error, or numerically equal elements
Same(r, d) == r.st = d.st /\ (r.st = "ok" => r.val.el = d.el)

TopSym(h) == IF expr[h][1] = "bin" THEN expr[h][2] ELSE ""

RECURSIVE HasCmp(_)
HasCmp(e) ==
    CASE e[1] = "bin" -> e[2] \in CmpSyms \/ HasCmp(e[3]) \/ HasCmp(e[4])
      [] e[1] \in {"func", "un"} -> HasCmp(e[3])
      [] OTHER -> FALSE

\* built from leaves, constants and binary operators alone
RECURSIVE OnlyBinary(_)
OnlyBinary(e) ==
    CASE e[1] = "bin" -> OnlyBinary(e[3]) /\ OnlyBinary(e[4])
      [] e[1] \in {"func", "un"} -> FALSE
      [] OTHER -> TRUE

\* C1: for an expression built from leaf tapes, constants and the binary
\* operators, evaluate() returns what the same expression gives when it is
\* computed directly on the arrays of the leaves with the operators of numpy.
C1_EvaluateEqualsDirect ==
    (IsEval /\ OnlyBinary(expr[ret.h])) => Same(ret, Direct(expr[ret.h]))

\* the part of C1 the evaluator keeps: expressions without a comparison
\* without comparison operators in the expression the two values agree
EqualsDirectWithoutComparison ==
    (IsEval /\ OnlyBinary(expr[ret.h]) /\ ~HasCmp(expr[ret.h]))
        => Same(ret, Direct(expr[ret.h]))


InitialData == SubSeq(LeafArrays, 1, vocab.leaves)

\* C2: after any number of evaluate() calls the data of every leaf is what
\* it was, and no operator call of an evaluation was given a leaf's data
\* as its out array.
C2_LeafDataUnchanged ==
    /\ bufs = InitialData
    /\ IsEval => \A k \in LogIdx :
          /\ ret.log[k].mode = "left" =>
                ret.log[k].left.t = "arr" /\ ret.log[k].left.n > vocab.leaves
          /\ ret.log[k].mode = "right" =>
                ret.log[k].right.t = "arr" /\ ret.log[k].right.n > vocab.leaves

\* an evaluation that wrote in place and consumed a leaf as a nested tape
C2_Witness ==
    /\ Returns
    /\ \E k \in LogIdx : ret.log[k].mode = "left" /\ ~ret.log[k].caught
    /\ \E k \in 1..Len(ret.pushes) :
          ret.pushes[k].elem.t = "tape" /\ IsLeaf(ret.pushes[k].elem.n)

\* C3: at every reflected entry the constant pushed last is the left
\* operand and the value computed so far the right one; 1 - tape is
\* 1 - tape.data.
C3_ReflectedOperandOrder ==
    IsEval =>
      /\ \A k \in LogIdx :
            ret.log[k].optype = BIN_OP_R =>
              /\ ret.log[k].left = ops(ret.log[k].h)[ret.log[k].i - 1]
              /\ ret.log[k].left.t = "const"
              /\ ret.log[k].right.t = "arr"
              /\ ret.log[k].lval.el = <<FromInt(ret.log[k].left.n)>>
      /\ \A c \in vocab.consts :
            expr[ret.h] = BinExpr("-", ConstExpr(c), LeafExpr(1)) =>
              /\ ret.st = "ok"
              /\ ret.val.el = [i \in 1..Len(LeafArrays[1].el) |->
                                 FromInt(Wrap(c - LeafArrays[1].el[i][1]))]

\* a reflected operator written into the mutable intermediate on its right
C3_Witness ==
    /\ Returns
    /\ \E k \in LogIdx :
          /\ ret.log[k].optype = BIN_OP_R /\ ret.log[k].sym = "-"
          /\ ret.log[k].rmut /\ ret.log[k].mode = "right" /\ ~ret.log[k].caught

\* C4: the visible entries ops[0:index], optypes[0:index] of every handle
\* are those it had when it was returned.
C4_VisibleNeverChanges == \A h \in HandleIds : Visible(h) = born[h]

\* two handles on one list with different cursors, and a third on a copy
C4_Witness ==
    \E h1, h2, h3 \in HandleIds :
        /\ handles[h1].ops = handles[h2].ops
        /\ handles[h1].index < handles[h2].index
        /\ handles[h3].ops # handles[h1].ops
        /\ handles[h3].index > handles[h1].index
        /\ SubSeq(ops(h3), 1, handles[h1].index) = Visible(h1).ops
        /\ Visible(h3).ops # Visible(h2).ops

\* C5: a comparison evaluates to an array of boolean kind.
C5_ComparisonIsBool ==
    (Returns /\ TopSym(ret.h) \in CmpSyms) => ret.val.kind = "bool"

\* C6: evaluate(t + t) is 2 * t.data and leaves t.data as it was.
C6_TapePlusItself ==
    \A b \in Leaves :
        (IsEval /\ expr[ret.h] = BinExpr("+", LeafExpr(b), LeafExpr(b))) =>
            /\ ret.st = "ok"
            /\ ret.val.el = [i \in 1..Len(LeafArrays[b].el) |->
                               FromInt(Wrap(2 * LeafArrays[b].el[i][1]))]
            /\ bufs[b] = LeafArrays[b]

\* t + t evaluated through the list of t, which holds t itself
C6_Witness ==
    \E b \in Leaves :
        /\ Returns /\ expr[ret.h] = BinExpr("+", LeafExpr(b), LeafExpr(b))
        /\ handles[ret.h].ops = handles[b].ops
        /\ \E i \in 1..Len(ops(b)) : ops(b)[i] = TapeEntry(b)

IntKinds == {"bool", "int8", "int64"}

\* C7: every true division gives a float64 result; when the operand it
\* would write into is of boolean or integer kind the in-place call raises
\* and the result is a new array.
C7_DivisionIsFloat ==
    IsEval =>
      /\ \A k \in LogIdx :
            ret.log[k].sym = "/" =>
              /\ ret.log[k].st = "ok"
              /\ ret.log[k].res.kind = "float64"
              /\ (ret.log[k].mode = "left" /\ ret.log[k].lval.kind \in IntKinds)
                    => ret.log[k].caught
              /\ (ret.log[k].mode = "right" /\ ret.log[k].rval.kind \in IntKinds)
                    => ret.log[k].caught
              /\ ret.log[k].caught =>
                    /\ ret.log[k].out # ret.log[k].left.n
                    /\ ret.log[k].out # ret.log[k].right.n
      /\ (ret.st = "ok" /\ TopSym(ret.h) = "/") => ret.val.kind = "float64"

\* divisions of a mutable integer intermediate on the left, and on the right
C7_Witness ==
    /\ Returns /\ TopSym(ret.h) = "/"
    /\ \E k \in LogIdx :
          /\ ret.log[k].sym = "/" /\ ret.log[k].caught
          /\ ret.log[k].lmut /\ ret.log[k].lval.kind = "int64"
          /\ ret.log[k].rval.kind = "int64"

\* C8: every expression of a family of test_equal_expr evaluates to the
\* value of the family's reference expression.
C8_EqualExpressions ==
    (IsEval /\ plan.calls = <<>> /\ plan.ref # <<"none">>)
        => Same(ret, Direct(plan.ref)) /\ ret.st = "ok"

\* a permutation other than the reference order has been evaluated
C8_Witness ==
    /\ Returns /\ plan.calls = <<>> /\ plan.ref # <<"none">>
    /\ expr[ret.h] # plan.ref
    /\ vocab.leaves = 4

\* the first entry of ops[0:index] that is a FUNC entry or consumes a nested
\* tape which has one; 0 when there is none
RECURSIVE FuncAt(_)
FuncAt(h) ==
    LET v == Visible(h)
        hits == {i \in 1..Len(v.ops) :
                    \/ v.optypes[i] = FUNC
                    \/ /\ v.optypes[i] \in {BIN_OP, BIN_OP_R} /\ i > 1
                       /\ v.optypes[i - 1] = OP_TRACK
                       /\ FuncAt(v.ops[i - 1].n) # 0}
    IN  IF hits = {} THEN 0 ELSE CHOOSE i \in hits : \A j \in hits : i <= j

\* C9: evaluating a handle whose visible sequence has a FuncOp entry, or
\* consumes a nested tape that has one, raises NotImplementedError.
C9_FuncRaisesNotImplemented ==
    (IsEval /\ FuncAt(ret.h) # 0) => ret.st = "NotImplementedError"

\* C9 as amended: it never returns a value; it raises NotImplementedError at
\* that entry unless the ufunc of an earlier entry raised a type or value
\* error first.
C9_FuncNeverReturns ==
    (IsEval /\ FuncAt(ret.h) # 0) =>
        \/ /\ ret.st = "NotImplementedError"
           /\ ret.at = FuncAt(ret.h)
        \/ /\ ret.st \in {"TypeError", "ValueError"}
           /\ ret.at <= FuncAt(ret.h)
           /\ ret.phase \in {"ufunc", "unary", "operand"}
           /\ ret.phase = "ufunc" =>
                 (Len(ret.log) > 0 /\ ret.log[Len(ret.log)].st = ret.st)

\* a FuncOp inside a nested tape that a binary entry consumes
C9_Witness ==
    /\ IsEval /\ ret.st = "NotImplementedError" /\ ret.phase = "operand"
    /\ FuncAt(ret.h) # 0

\* C10: when the in-place call raises, the entry's result is that of the
\* same ufunc on the same operands in a new array, and the walk goes on;
\* evaluate raises at a binary entry only if that fresh call raises.
C10_FallbackToFresh ==
    IsEval =>
      /\ \A k \in LogIdx :
            /\ ret.log[k].caught =>
                  /\ ret.log[k].st =
                        NpBinary(ret.log[k].sym, ret.log[k].lval, ret.log[k].rval).st
                  /\ ret.log[k].st = "ok" =>
                        /\ ret.log[k].res.el =
                              NpBinary(ret.log[k].sym, ret.log[k].lval,
                                       ret.log[k].rval).el
                        /\ ret.log[k].res.kind =
                              NpBinary(ret.log[k].sym, ret.log[k].lval,
                                       ret.log[k].rval).kind
                        /\ ret.log[k].out # ret.log[k].left.n
                        /\ ret.log[k].out # ret.log[k].right.n
            /\ k < Len(ret.log) => ret.log[k].st = "ok"
      /\ ret.phase = "ufunc" =>
            /\ Len(ret.log) > 0
            /\ ret.log[Len(ret.log)].st = ret.st
            /\ NpBinary(ret.log[Len(ret.log)].sym, ret.log[Len(ret.log)].lval,
                        ret.log[Len(ret.log)].rval).st = ret.st

\* an evaluation that returned although an in-place call raised on the way
C10_Witness ==
    /\ Returns
    /\ \E k \in LogIdx : ret.log[k].caught /\ k < Len(ret.log)


UnarySyms == {"~", "-", "+"}

\* the handle made last is handle h with one UNI_OP entry appended
AppendsUnary(h) ==
    LET n == Len(handles) IN
    /\ n > h
    /\ handles[n].index = handles[h].index + 1
    /\ Visible(n).optypes = Append(born[h].optypes, UNI_OP)
    /\ SubSeq(Visible(n).ops, 1, handles[h].index) = born[h].ops
    /\ Visible(n).ops[handles[n].index].t = "sym"
    /\ Visible(n).ops[handles[n].index].s \in UnarySyms
    /\ Visible(h) = born[h]
    /\ handles[h].index = Len(born[h].ops)

\* C11: applying a unary operator (-tape, ~tape, +tape) returns a new handle
\* whose visible sequence is the operand's followed by one UnaryOp entry,
\* with the operand's cursor + 1, and leaves the operand as it was.
C11_UnaryAppends ==
    ret.op = "unary" => (ret.st = "ok" /\ AppendsUnary(ret.h))

\* __update_unary__ itself, reached by passing the method an argument,
\* appends the one entry
UpdateUnaryAppends ==
    ret.op = "unary_explicit" => (ret.st = "ok" /\ AppendsUnary(ret.h))


\* C12: a leaf tape has exactly one entry in ops, its data, and cursor 1 in
\* every reachable state.
C12_LeafHasOneEntry ==
    \A b \in Leaves :
        /\ Len(ops(b)) = 1 /\ ops(b) = <<ArrEntry(b)>>
        /\ handles[b].index = 1

\* C12 as amended: a leaf has cursor 1 and its visible sequence ops[0:1] is
\* its data operand in every reachable state; its list has that one entry
\* until an operator is applied to the leaf itself, which appends to it.
C12_LeafVisibleIsItsData ==
    \A b \in Leaves :
        /\ handles[b].index = 1
        /\ Visible(b) = [ops |-> <<ArrEntry(b)>>, optypes |-> <<VAR>>]
        /\ handles[b].data = b
        /\ Len(ops(b)) = 1 <=>
              ~\E h \in HandleIds : h # b /\ handles[h].ops = handles[b].ops

\* a leaf whose list has grown, and a second handle built from it on a copy
C12_Witness ==
    \E b \in Leaves, h \in HandleIds :
        /\ Len(ops(b)) > 1
        /\ ~IsLeaf(h) /\ handles[h].ops # handles[b].ops
        /\ ops(h)[1] = ArrEntry(b)

\* C13: every handle has cursor <= len(ops) and len(ops) = len(optypes).
C13_CursorWithinLists ==
    \A h \in HandleIds :
        /\ handles[h].index <= Len(ops(h))
        /\ handles[h].index >= 1
        /\ Len(ops(h)) = Len(optypes(h))

\* a handle behind the end of a list that holds unary, function and binary
\* entries
C13_Witness ==
    \E h \in HandleIds :
        /\ handles[h].index < Len(ops(h))
        /\ ~IsLeaf(h)
        /\ \E i, j, k \in 1..Len(ops(h)) :
              /\ optypes(h)[i] = UNI_OP /\ optypes(h)[j] = FUNC
              /\ optypes(h)[k] = BIN_OP

\* the handles a binary operator call returned with tape h as other operand
UsesOf(h) ==
    {n \in HandleIds :
        /\ Len(born[n].ops) >= 3
        /\ born[n].optypes[Len(born[n].ops)] \in {BIN_OP, BIN_OP_R}
        /\ born[n].ops[Len(born[n].ops) - 1] = TapeEntry(h)}

\* C14: refcount is 0 at creation and is the number of binary operator
\* applications that appended the tape as an operand: no other operation
\* changes it.
C14_RefcountCountsOperandUses ==
    \A h \in HandleIds : handles[h].refcount = Cardinality(UsesOf(h))

\* after an evaluate: a tape used twice as operand, one never used
C14_Witness ==
    /\ IsEval
    /\ \E h, g \in HandleIds :
          /\ handles[h].refcount = 2 /\ ~IsLeaf(h)
          /\ handles[g].refcount = 0 /\ ~IsLeaf(g)

\* the binary entry k of the log put its result in a new array
Fresh(k) ==
    /\ ret.log[k].left.t = "arr" => ret.log[k].out # ret.log[k].left.n
    /\ ret.log[k].right.t = "arr" => ret.log[k].out # ret.log[k].right.n

\* the arrays an evaluation allocated
Allocated == {ret.log[k].out : k \in {j \in LogIdx : Fresh(j)}}

\* C15: evaluating a + b * (c**2 + d**2) allocates two arrays, the results
\* of c**2 and d**2; every later operation writes into one of them.
C15_TwoIntermediates ==
    (Returns /\ expr[ret.h] = DocExpr) =>
        /\ Cardinality(Allocated) = 2
        /\ \A k \in LogIdx : Fresh(k) <=> ret.log[k].sym = "**"


\* the operand pushes of the latest evaluation, nested evaluations included
OperandPushes ==
    {k \in 1..Len(ret.pushes) : ret.pushes[k].optype \notin FUNCTYPES}

IsTape(elem) == elem.t = "tape"

\* C21: the flag pushed with an operand is True only if the operand is a
\* nested tape whose refcount is exactly 1; a constant operand and a nested
\* tape with refcount >= 2 are always pushed with flag False.
C21_OperandFlag ==
    IsEval => \A k \in OperandPushes :
        /\ ret.pushes[k].flag =>
              /\ IsTape(ret.pushes[k].elem)
              /\ handles[ret.pushes[k].elem.n].refcount = 1
        /\ ~IsTape(ret.pushes[k].elem) => ~ret.pushes[k].flag
        /\ (IsTape(ret.pushes[k].elem)
               /\ handles[ret.pushes[k].elem.n].refcount >= 2)
              => ~ret.pushes[k].flag

\* one evaluation pushed a plain operand, a tape used twice and a tape used
\* once
C21_Witness ==
    /\ Returns
    /\ \E k \in OperandPushes : ~IsTape(ret.pushes[k].elem)
    /\ \E k \in OperandPushes :
          /\ IsTape(ret.pushes[k].elem)
          /\ handles[ret.pushes[k].elem.n].refcount >= 2
    /\ \E k \in OperandPushes :
          /\ IsTape(ret.pushes[k].elem)
          /\ handles[ret.pushes[k].elem.n].refcount = 1

\* the positions of the nested-tape operands in the whole list of h
TapeOperandAt(h) == {i \in 1..Len(ops(h)) : optypes(h)[i] = OP_TRACK}

\* C22: the set of immutable tape identities evaluate builds up front holds
\* exactly the nested-tape operands of the tape whose refcount is not 1.
C22_ImmutableIsNotSoleUse ==
    IsEval =>
        /\ \A n \in Immutable(ret.h) :
              \E i \in TapeOperandAt(ret.h) : ops(ret.h)[i].n = n
        /\ \A i \in TapeOperandAt(ret.h) :
              ops(ret.h)[i].n \in Immutable(ret.h)
                  <=> handles[ops(ret.h)[i].n].refcount # 1

\* What the code builds: every nested-tape operand of the whole list,
\* whatever its refcount.
ImmutableIsEveryTapeOperand ==
    IsEval =>
        Immutable(ret.h) = {ops(ret.h)[i].n : i \in TapeOperandAt(ret.h)}

\* about the binary entry k of the log: the minimal kind of x casts safely
\* to that of y; the conditions of the two in-place branches; where the
\* result was written
CastsTo(x, y) == can_cast(mscalar(x), mscalar(y))

LeftOK(k) == ret.log[k].lmut /\ CastsTo(ret.log[k].rval, ret.log[k].lval)

RightOK(k) ==
    ~LeftOK(k) /\ ret.log[k].rmut /\ CastsTo(ret.log[k].lval, ret.log[k].rval)

WroteLeft(k) == ret.log[k].left.t = "arr" /\ ret.log[k].out = ret.log[k].left.n

WroteRight(k) == ret.log[k].right.t = "arr" /\ ret.log[k].out = ret.log[k].right.n

Computed == {k \in LogIdx : ret.log[k].st = "ok"}

\* C23: for every binary entry, evaluate writes into the left operand's
\* buffer iff the left operand is flagged mutable and the right's minimal
\* kind safely casts to the left's; otherwise into the right operand's buffer
\* iff the right is flagged mutable and the left's kind safely casts to the
\* right's; otherwise it allocates a fresh result buffer.
C23_InPlaceByFlagAndCast ==
    IsEval => \A k \in Computed :
        /\ WroteLeft(k) <=> LeftOK(k)
        /\ WroteRight(k) <=> RightOK(k)
        /\ Fresh(k) <=> (~LeftOK(k) /\ ~RightOK(k))

\* the in-place call of entry k raises a type or value error
InPlaceRaises(k) ==
    \/ /\ LeftOK(k)
       /\ Caught(NpBinaryOut(ret.log[k].sym, ret.log[k].lval, ret.log[k].rval,
                             ret.log[k].lval.kind).st)
    \/ /\ RightOK(k)
       /\ Caught(NpBinaryOut(ret.log[k].sym, ret.log[k].lval, ret.log[k].rval,
                             ret.log[k].rval.kind).st)

\* C23 as amended: the branch is chosen as the claim says, and the result is
\* written into the chosen operand unless that in-place call raises a type
\* or value error; then, as in the third branch, the result is a fresh
\* buffer (the other operand is not tried).
C23_InPlaceUnlessItRaises ==
    IsEval => \A k \in Computed :
        /\ WroteLeft(k) <=> (LeftOK(k) /\ ~InPlaceRaises(k))
        /\ WroteRight(k) <=> (RightOK(k) /\ ~InPlaceRaises(k))
        /\ Fresh(k) <=> ((~LeftOK(k) /\ ~RightOK(k)) \/ InPlaceRaises(k))
        /\ ret.log[k].caught <=> InPlaceRaises(k)

\* one evaluation wrote into a mutable left operand and later fell back to a
\* fresh buffer when the in-place call on such an operand raised
C23_Witness ==
    /\ Returns
    /\ \E j, k \in Computed :
          /\ j < k
          /\ WroteLeft(j) /\ LeftOK(j)
          /\ LeftOK(k) /\ InPlaceRaises(k) /\ Fresh(k)

\* an entry written into its mutable right operand
WroteRightWitness ==
    /\ Returns
    /\ \E k \in Computed : WroteRight(k) /\ RightOK(k) /\ ~ret.log[k].lmut

PushIdx == 1..Len(ret.pushes)

\* the two stacks right after push k of the latest evaluation
StackAt(k) == Append(ret.pushes[k].below, ret.pushes[k].elem)
FlagsAt(k) == Append(ret.pushes[k].belowmut, ret.pushes[k].flag)

\* the array b is held by some list of some tape
InSomeOps(b) ==
    \E h \in HandleIds : \E i \in 1..Len(ops(h)) : ops(h)[i] = ArrEntry(b)

\* every value flagged mutable is an array that is no leaf's data, is held
\* by no other stack entry and by no list of a tape
MutableAreOwned(stack, flags) ==
    \A p \in 1..Len(stack) :
        (p <= Len(flags) /\ flags[p]) =>
            /\ stack[p].t = "arr"
            /\ stack[p].n > vocab.leaves
            /\ \A q \in 1..Len(stack) : q # p => stack[q] # stack[p]
            /\ ~InSomeOps(stack[p].n)

\* C24: every operator result is pushed with mutability True, and at every
\* step of evaluate each stack value flagged mutable is a buffer that is not
\* the data of any leaf tape, is not held by any other stack entry, and is
\* not reachable from any tape's ops.
C24_MutableValuesAreOwned ==
    IsEval => \A k \in PushIdx :
        /\ ret.pushes[k].optype \in FUNCTYPES => ret.pushes[k].flag
        /\ MutableAreOwned(StackAt(k), FlagsAt(k))

\* a nested tape pushed on top of a mutable result, in an evaluation that
\* wrote into a mutable left operand
C24_Witness ==
    /\ Returns
    /\ \E k \in PushIdx :
          /\ IsTape(ret.pushes[k].elem)
          /\ Len(ret.pushes[k].below) = 1 /\ ret.pushes[k].belowmut[1]
    /\ \E j \in Computed : WroteLeft(j)

\* C25: during evaluate the value stack and the mutability stack always have
\* equal length, no pop is attempted on an empty stack, and exactly one
\* value remains on the stack when the walk over ops[0:cursor] ends.
C25_StacksInStep ==
    IsEval =>
        /\ \A k \in PushIdx : Len(StackAt(k)) = Len(FlagsAt(k))
        /\ ret.st # "IndexError" /\ ret.phase # "pop"
        /\ ret.st = "ok" =>
              /\ Len(ret.pushes) > 0
              /\ ret.pushes[Len(ret.pushes)].h = ret.h
              /\ Len(StackAt(Len(ret.pushes))) = 1
        /\ \A k \in PushIdx :
              (k < Len(ret.pushes) /\ ret.pushes[k].h # ret.pushes[k + 1].h
                   /\ ret.pushes[k + 1].optype \in FUNCTYPES)
                  => Len(StackAt(k)) = 1

\* an evaluation with a reflected entry that went through a nested tape
\* whose walk pushed two values
C25_Witness ==
    /\ Returns
    /\ \E k \in PushIdx : ret.pushes[k].h # ret.h /\ Len(ret.pushes[k].below) = 1
    /\ \E k \in PushIdx : ret.pushes[k].optype = BIN_OP_R

IsBuilt == ret.op \in {"binary", "reflected"}

\* the two entries a binary operator call appends, and their type tags
Appended(call) == <<call.other, SymEntry(call.sym)>>
AppendedTypes(call) ==
    <<OtherType(call.other), IF call.op = "binary" THEN BIN_OP ELSE BIN_OP_R>>

\* C26: applying a binary operator to handle h with operand x returns a new
\* handle whose visible sequence is h.ops[0:h.cursor] followed by x and the
\* operator tag, and whose cursor is h.cursor + 2; the backing list is h's
\* own list extended in place when h.cursor == len(h.ops), and a copy of
\* h.ops[0:h.cursor] otherwise.
C26_BinaryAppendsTwo ==
    IsBuilt =>
        /\ ret.h = Len(handles) /\ ret.base < ret.h
        /\ handles[ret.h].index = handles[ret.base].index + 2
        /\ Visible(ret.h).ops =
              SubSeq(ret.list, 1, handles[ret.base].index) \o Appended(ret)
        /\ Visible(ret.h).optypes =
              SubSeq(ret.types, 1, handles[ret.base].index) \o AppendedTypes(ret)
        /\ ret.ended <=> handles[ret.base].index = Len(ret.list)
        /\ ret.ended =>
              /\ handles[ret.h].ops = handles[ret.base].ops
              /\ handles[ret.h].optypes = handles[ret.base].optypes
              /\ ops(ret.h) = ret.list \o Appended(ret)
              /\ optypes(ret.h) = ret.types \o AppendedTypes(ret)
        /\ ~ret.ended =>
              /\ \A g \in HandleIds \ {ret.h} :
                    /\ handles[g].ops # handles[ret.h].ops
                    /\ handles[g].optypes # handles[ret.h].optypes
              /\ ops(ret.h) = Visible(ret.h).ops
              /\ optypes(ret.h) = Visible(ret.h).optypes
              /\ ops(ret.base) = ret.list
              /\ optypes(ret.base) = ret.types

\* a binary operator with a tape operand applied to a handle that is behind
\* the end of a list which other handles extended
C26_Witness ==
    /\ IsBuilt /\ ~ret.ended /\ IsTape(ret.other)
    /\ handles[ret.base].index > 1
    /\ Len(ret.list) >= handles[ret.base].index + 2

\* the in-place case, for a reflected operator on a handle other than a leaf
AppendInPlaceWitness ==
    /\ ret.op = "reflected" /\ ret.ended /\ handles[ret.base].index > 1

\* what an evaluation decided at each operator entry, whichever handle the
\* entry was walked for
Decisions(log) ==
    [k \in 1..Len(log) |->
        [i |-> log[k].i, sym |-> log[k].sym, optype |-> log[k].optype,
         left |-> log[k].left, right |-> log[k].right,
         lmut |-> log[k].lmut, rmut |-> log[k].rmut,
         mode |-> log[k].mode, caught |-> log[k].caught, st |-> log[k].st,
         out |-> log[k].out, res |-> log[k].res]]

\* the evaluation r of another handle came out as the one that returned
SameOutcome(r) ==
    /\ r.st = ret.st
    /\ r.st = "ok" => r.heap[r.v.n] = ret.val
    /\ r.st # "ok" => r.at = ret.at /\ r.phase = ret.phase
    /\ Decisions(r.log) = Decisions(ret.log)

SamePrefix(g) == g # ret.h /\ Visible(g) = Visible(ret.h)

\* C27: evaluate(h) depends only on the entries ops[0:h.cursor]: two handles
\* with the same visible prefix but different entries beyond the cursor in
\* their backing lists evaluate to the same result with the same
\* in-place/allocate decisions.
C27_OnlyThePrefixCounts ==
    IsEval =>
        \A g \in HandleIds : SamePrefix(g) => SameOutcome(evaluate(g, bufs))

\* an evaluation that applied an operator, for a handle whose prefix is also
\* that of a handle on another list, where one of the two lists goes on
\* beyond the cursor with a tape the other list does not hold
C27_Witness ==
    /\ Returns /\ Len(ret.log) > 0
    /\ \E g \in HandleIds :
          /\ SamePrefix(g)
          /\ handles[g].ops # handles[ret.h].ops
          /\ Len(ops(g)) # Len(ops(ret.h))
          /\ Immutable(g) # Immutable(ret.h)

\* the tapes among the entries a handle walks, which it evaluates when it
\* pops them
NestedIn(h) ==
    {Visible(h).ops[i].n :
        i \in {j \in 1..Len(Visible(h).ops) : Visible(h).optypes[j] = OP_TRACK}}

RECURSIVE ReachFrom(_, _)
ReachFrom(S, k) ==
    IF k = 0 THEN S
    ELSE ReachFrom(S \cup UNION {NestedIn(g) : g \in S}, k - 1)

\* every handle the evaluation of h may come to evaluate
Reachable(h) == ReachFrom(NestedIn(h), Len(handles))

\* C28: evaluate terminates for every handle built through the operator API,
\* at any nesting depth and also when a backing list contains a handle that
\* shares that same list: no handle is reachable from its own visible
\* prefix, and an evaluation walks only the handle and what is reachable
\* from it, each nested tape having been built before the tape that holds it.
C28_EvaluationIsWellFounded ==
    /\ \A h \in HandleIds :
          /\ h \notin Reachable(h)
          /\ \A g \in NestedIn(h) : g < h \/ IsLeaf(g)
    /\ IsEval =>
          /\ ret.st \in {"ok", "TypeError", "UFuncTypeError", "ValueError",
                         "NotImplementedError", "IndexError",
                         "ZeroDivisionError"}
          /\ \A k \in PushIdx :
                ret.pushes[k].h \in Reachable(ret.h) \cup {ret.h}
          /\ \A k \in LogIdx :
                ret.log[k].h \in Reachable(ret.h) \cup {ret.h}

\* the evaluation of a handle whose list holds, before the cursor, a tape
\* that shares the list and itself holds a tape
C28_Witness ==
    /\ Returns
    /\ \E g \in NestedIn(ret.h) :
          /\ handles[g].ops = handles[ret.h].ops
          /\ NestedIn(g) # {}
          /\ \E k \in LogIdx : ret.log[k].h = g

\* C29: evaluate leaves the ops, optypes, cursor and refcount of every tape
\* handle unchanged, so evaluating the same handle a second time returns a
\* result equal to the first.
C29_EvaluateChangesNoTape ==
    IsEval =>
        /\ ret.before = Tapes
        /\ \A h \in HandleIds :
              /\ Visible(h) = born[h]
              /\ handles[h].refcount = Cardinality(UsesOf(h))
        /\ SameOutcome(evaluate(ret.h, bufs))

\* an evaluation that evaluated a nested tape other than a leaf and wrote a
\* result in place
C29_Witness ==
    /\ Returns
    /\ \E g \in NestedIn(ret.h) : ~IsLeaf(g) /\ handles[g].refcount >= 1
    /\ \E k \in LogIdx : ret.log[k].mode \in {"left", "right"}

----------------------------------------------------------------------------
(* _Heap (src/algo/Heap/Heap.py): a binary min-heap in a numpy array.      *)
(* Python indexes from 0: Get(a, i) is a[i].  A heap object is the record  *)
(* self of its fields; the methods are operators that return it changed.   *)

\* the state of the tape program while another program runs
TapeIdle ==
    /\ handles = <<>> /\ opsHeap = <<>> /\ optypesHeap = <<>> /\ bufs = <<>>
    /\ expr = <<>> /\ born = <<>> /\ ret = Returned("init", 0)
    /\ vocab = Vocabulary({}, {}, {}, 0) /\ plan = NoPlan

\* the values stored on heaps, the longest array a heap is built from and
\* the most values a heap is given
MaxValue == 2
MaxData == 3
MaxHeap == 4

Values == 0..MaxValue

\* what np.empty leaves in a slot that was never written
Junk == -1

Get(a, i) == a[i + 1]
Put(a, i, v) == [a EXCEPT ![i + 1] = v]
Swap(a, i, j) == [a EXCEPT ![i + 1] = a[j + 1], ![j + 1] = a[i + 1]]

Self == [_array |-> _array, size |-> size, _downsize |-> _downsize]

\* (i<<1) + 1 >= self.size
_isleaf(self, i) == (i * 2) + 1 >= self.size

\* self with the values at i and j swapped, and the index j that received
\* the former parent value
Swapped(self, i, j) ==
    [self |-> [self EXCEPT !._array = Swap(self._array, i, j)], j |-> j]

LargerChild(left_index, left_value, right_index, right_value) ==
    IF left_value > right_value THEN left_index ELSE right_index

\* `if left_value < right_value: j = left_index` / `else: j = right_index`
SmallerChild(left_index, left_value, right_index, right_value) ==
    IF left_value < right_value THEN left_index ELSE right_index

\* __maintain_invariant(self, i): swap the parent at i with the lesser of
\* its children when it is greater than one of them; -1 when nothing moved
__maintain_invariant(self, i) ==
    IF _isleaf(self, i) THEN [self |-> self, j |-> -1]
    ELSE LET parent_value == Get(self._array, i)
             left_index == (i * 2) + 1
             right_index == (i * 2) + 2
             left_value == Get(self._array, left_index)
         IN  IF right_index = self.size
             THEN IF parent_value > left_value
                  THEN Swapped(self, i, left_index)
                  ELSE [self |-> self, j |-> -1]
             ELSE IF \/ parent_value > left_value
                     \/ parent_value > Get(self._array, right_index)
                  THEN Swapped(self, i,
                               SmallerChild(left_index, left_value, right_index,
                                            Get(self._array, right_index)))
                  ELSE [self |-> self, j |-> -1]

RECURSIVE _maintain_invariant(_, _)
Descend(r) == _maintain_invariant(r.self, r.j)

\* _maintain_invariant(self, i): `while i != -1: i = self.__maintain_invariant(i)`
_maintain_invariant(self, i) ==
    IF i = -1 THEN self ELSE Descend(__maintain_invariant(self, i))

\* the loop of _heapify, `for i in range((self.size-1) >> 1, -1, -1)`
RECURSIVE HeapifyFrom(_, _)
HeapifyFrom(self, i) ==
    IF i < 0 THEN self ELSE HeapifyFrom(_maintain_invariant(self, i), i - 1)

_heapify(self) == HeapifyFrom(self, (self.size - 1) \div 2)

\* _Heap.__init__(self, data, downsize, empty)
HeapInit(data, downsize, empty) ==
    IF empty
    THEN [_array |-> data, size |-> 0, _downsize |-> downsize]
    ELSE IF Len(data) # 1
    THEN _heapify([_array |-> data, size |-> Len(data), _downsize |-> downsize])
    ELSE [_array |-> data, size |-> Len(data), _downsize |-> downsize]

\* new = np.empty(len(self._array) << 1); new[:self.size] = self._array
Enlarged(self) ==
    IF Len(self._array) = self.size
    THEN [self EXCEPT !._array =
            [k \in 1..(2 * Len(self._array)) |->
                IF k <= self.size THEN self._array[k] ELSE Junk]]
    ELSE self

\* the while loop of push: swap the child at i with its parent while it is
\* less than the parent
RECURSIVE Percolate(_, _)
Percolate(a, i) ==
    IF i > 0 /\ Get(a, i) < Get(a, (i - 1) \div 2)
    THEN Percolate(Swap(a, i, (i - 1) \div 2), (i - 1) \div 2)
    ELSE a

Pushed(self, value) ==
    [self EXCEPT !._array = Percolate(Put(self._array, self.size, value), self.size),
                 !.size = self.size + 1]

\* _Heap.push(self, value)
push(self, value) == Pushed(Enlarged(self), value)

\* self._array = np.copy(self._array[:self.size]) when downsizing applies
Downsized(self) ==
    IF self._downsize /\ self.size < Len(self._array) \div 2
    THEN [self EXCEPT !._array = SubSeq(self._array, 1, self.size)]
    ELSE self

PopResult(self, popped, st) == [self |-> self, popped |-> popped, st |-> st]

LastToTopAfterDecrement(self) ==
    [self EXCEPT !._array = Put(self._array, 0, Get(self._array, self.size - 2)),
                 !.size = self.size - 1]

\* the last value moved to the top and the size decremented
LastToTop(self) ==
    [self EXCEPT !._array = Put(self._array, 0, Get(self._array, self.size - 1)),
                 !.size = self.size - 1]

\* _Heap.pop(self)
pop(self) ==
    IF self.size = 0 THEN PopResult(self, Junk, "ValueError")
    ELSE IF self.size = 1
    THEN PopResult([self EXCEPT !.size = 0], Get(self._array, 0), "ok")
    ELSE PopResult(Downsized(_maintain_invariant(LastToTop(self), 0)),
                   Get(self._array, 0), "ok")

\* _Heap.empty(self): np.array([self.pop() for _ in range(self.size)])
RECURSIVE PopAll(_, _, _)
PopNext(r, n, acc) ==
    IF r.st # "ok" THEN [self |-> r.self, popped |-> acc, st |-> r.st]
    ELSE PopAll(r.self, n - 1, Append(acc, r.popped))

PopAll(self, n, acc) ==
    IF n = 0 THEN PopResult(self, acc, "ok") ELSE PopNext(pop(self), n, acc)

empty(self) == PopAll(self, self.size, <<>>)

\* the values of a sequence with their multiplicities
BagOfSeq(seq) ==
    [v \in Values |-> Cardinality({i \in 1..Len(seq) : seq[i] = v})]

\* the values on the heap
Content(self) == BagOfSeq(SubSeq(self._array, 1, self.size))

HeapBecomes(self) ==
    /\ _array' = self._array
    /\ size' = self.size
    /\ _downsize' = self._downsize

HeapReturned(op, st, val, before) ==
    [op |-> op, st |-> st, val |-> val, before |-> before]

DataArrays == UNION {[1..n -> Values] : n \in 1..MaxData}

\* Heap(data, downsize=..., empty=...)
InitHeap ==
    /\ \E data \in DataArrays, downsize \in BOOLEAN, as_empty \in BOOLEAN :
          /\ _array = HeapInit(data, downsize, as_empty)._array
          /\ size = HeapInit(data, downsize, as_empty).size
          /\ _downsize = downsize
          /\ hret = HeapReturned("init", "ok", data,
                                 IF as_empty THEN BagOfSeq(<<>>) ELSE BagOfSeq(data))
    /\ TapeIdle /\ QueuerIdle /\ PartIdle /\ ChunkIdle

HeapPushCall ==
    /\ size < MaxHeap
    /\ \E value \in Values :
          /\ HeapBecomes(push(Self, value))
          /\ hret' = HeapReturned("push", "ok", value, Content(Self))
    /\ UNCHANGED besidesHeap

PopOutcome(op, r) ==
    /\ HeapBecomes(r.self)
    /\ hret' = HeapReturned(op, r.st, r.popped, Content(Self))

HeapPopCall ==
    /\ PopOutcome("pop", pop(Self))
    /\ UNCHANGED besidesHeap

HeapEmptyCall ==
    /\ PopOutcome("empty", empty(Self))
    /\ UNCHANGED besidesHeap

NextHeap == HeapPushCall \/ HeapPopCall \/ HeapEmptyCall

SpecHeap == InitHeap /\ [][NextHeap]_vars

\* C16: after construction and after every push and pop the min-heap
\* invariant holds: _array[i] <= _array[2i+1] and _array[i] <= _array[2i+2]
\* for every i and every child index below size.
C16_HeapInvariant ==
    \A i \in 0..(size - 1) :
        /\ (2 * i) + 1 < size => Get(_array, i) <= Get(_array, (2 * i) + 1)
        /\ (2 * i) + 2 < size => Get(_array, i) <= Get(_array, (2 * i) + 2)

\* after a pop from a heap that was enlarged by a push: three or more values,
\* not all equal
C16_Witness ==
    /\ hret.op = "pop" /\ hret.st = "ok"
    /\ size >= 3 /\ Len(_array) > MaxData
    /\ \E i, j \in 0..(size - 1) : Get(_array, i) # Get(_array, j)

\* the least value of a non-empty bag
Least(bag) == CHOOSE v \in Values : bag[v] > 0 /\ \A w \in Values : w < v => bag[w] = 0

RECURSIVE Ascending(_, _)
Ascending(bag, v) ==
    IF v > MaxValue THEN <<>>
    ELSE [i \in 1..bag[v] |-> v] \o Ascending(bag, v + 1)

\* C17: pop returns the minimum of the values on the heap and removes one
\* occurrence of it; push adds the value pushed; empty() returns, ascending,
\* exactly the values that were on the heap.
C17_PopReturnsMinimum ==
    /\ hret.op = "init" => Content(Self) = hret.before
    /\ hret.op = "push" =>
          Content(Self) = [hret.before EXCEPT ![hret.val] = @ + 1]
    /\ (hret.op = "pop" /\ hret.st = "ok") =>
          /\ hret.val = Least(hret.before)
          /\ Content(Self) = [hret.before EXCEPT ![hret.val] = @ - 1]
    /\ (hret.op = "pop" /\ hret.st # "ok") =>
          /\ hret.before = BagOfSeq(<<>>) /\ size = 0
    /\ hret.op = "empty" =>
          /\ hret.st = "ok"
          /\ hret.val = Ascending(hret.before, 0)
          /\ size = 0

\* empty() of a downsizing heap that held four values, two of them equal
C17_Witness ==
    /\ hret.op = "empty" /\ _downsize
    /\ Len(hret.val) = MaxHeap
    /\ hret.val[1] = hret.val[2] /\ hret.val[1] # hret.val[MaxHeap]
    /\ Len(_array) < MaxHeap

----------------------------------------------------------------------------
(* Queuer (src/parallel/threading.py): calls of one function spread over   *)
(* worker threads that take them from a queue.  A dict of keywords is a    *)
(* function from its keys; an item of the queue is the pair of the call's  *)
(* index (from 0) and the call.                                            *)

\* the most worker threads, added calls and runs of one Queuer
MaxThreads == 2
MaxCalls == 2
MaxRuns == 2

NoKw == <<>>

Kw(k, v) == [x \in {k} |-> v]

RECURSIVE sum(_)
sum(l) == IF l = <<>> THEN 0 ELSE Head(l) + sum(Tail(l))

KwGet(kw, k, default) == IF k \in DOMAIN kw THEN kw[k] ELSE default

\* the function of the module's own run: f(l, m1=1, m2=1, a=0)
f(l, kw) == sum(l) * KwGet(kw, "m1", 1) * KwGet(kw, "m2", 1) + KwGet(kw, "a", 0)

\* func(*args, **global_kwargs, **kwargs): a keyword given twice is a
\* TypeError of the call itself
Invoke(call, global_kwargs) ==
    IF DOMAIN global_kwargs \cap DOMAIN call.kw # {}
    THEN [st |-> "TypeError", val |-> "None"]
    ELSE [st |-> "ok", val |-> f(call.a[1], global_kwargs @@ call.kw)]

\* the calls and keywords the calling program uses
CallChoices ==
    {[a |-> <<l>>, kw |-> kw] : l \in {<<1>>, <<1, 1>>}, kw \in {NoKw, Kw("m1", 2)}}
GlobalChoices == {NoKw, Kw("m2", 2), Kw("m1", 3)}

Outside == qpc.at \in {"idle", "returned"}

MainAt(at, k, st) == [at |-> at, k |-> k, st |-> st]

\* Queuer(f, thread_count, **global_kw)
InitQueuer ==
    /\ thread_count \in 1..MaxThreads
    /\ global_kw \in GlobalChoices
    /\ queue = <<>> /\ calls = <<>> /\ results = <<>> /\ threads = <<>>
    /\ qpc = MainAt("idle", 0, "ok")
    /\ qrun = [n |-> 0, execs |-> <<>>, raised |-> FALSE, queued |-> 0]
    /\ TapeIdle /\ HeapIdle /\ PartIdle /\ ChunkIdle

add_call ==
    /\ Outside /\ Len(calls) < MaxCalls
    /\ \E call \in CallChoices : calls' = Append(calls, call)
    /\ qpc' = MainAt("idle", 0, "ok")
    /\ UNCHANGED <<thread_count, queue, global_kw, results, threads, qrun>>
    /\ UNCHANGED besidesQueuer

add_global_kw ==
    /\ Outside
    /\ \E kw \in GlobalChoices \ {NoKw} : global_kw' = kw @@ global_kw
    /\ qpc' = MainAt("idle", 0, "ok")
    /\ UNCHANGED <<thread_count, queue, calls, results, threads, qrun>>
    /\ UNCHANGED besidesQueuer

\* pop_global_kw(k=...) of one keyword
pop_global_kw ==
    /\ Outside
    /\ \E k \in {"m1", "m2"} :
          IF k \in DOMAIN global_kw
          THEN /\ global_kw' = [x \in DOMAIN global_kw \ {k} |-> global_kw[x]]
               /\ qpc' = MainAt("idle", 0, "ok")
          ELSE /\ qpc' = MainAt("idle", 0, "KeyError")
               /\ UNCHANGED global_kw
    /\ UNCHANGED <<thread_count, queue, calls, results, threads, qrun>>
    /\ UNCHANGED besidesQueuer

clear_global_kw ==
    /\ Outside
    /\ global_kw' = NoKw
    /\ qpc' = MainAt("idle", 0, "ok")
    /\ UNCHANGED <<thread_count, queue, calls, results, threads, qrun>>
    /\ UNCHANGED besidesQueuer

NewThread == [pc |-> "new", item |-> "None"]

\* the items _prepare puts after those already on the queue
Enqueued(q, cs) == q \o [i \in 1..Len(cs) |-> [i |-> i - 1, call |-> cs[i]]]

\* run() up to the start of the first thread: _prepare()
_prepare ==
    /\ Outside /\ qrun.n < MaxRuns
    /\ results' = [i \in 1..Len(calls) |-> "None"]
    /\ threads' = [t \in 1..thread_count |-> NewThread]
    /\ queue' = Enqueued(queue, calls)
    /\ qpc' = MainAt("start", 1, "ok")
    /\ qrun' = [n |-> qrun.n + 1, execs |-> [i \in 1..Len(calls) |-> 0],
                raised |-> FALSE, queued |-> Len(queue')]
    /\ UNCHANGED <<thread_count, global_kw, calls>>
    /\ UNCHANGED besidesQueuer

\* for t in self.threads: t.start()
StartThread ==
    /\ qpc.at = "start"
    /\ IF qpc.k > Len(threads)
       THEN /\ qpc' = MainAt("join", 1, "ok")
            /\ UNCHANGED threads
       ELSE /\ threads' = [threads EXCEPT ![qpc.k].pc = "loop"]
            /\ qpc' = MainAt("start", qpc.k + 1, "ok")
    /\ UNCHANGED <<thread_count, queue, global_kw, calls, results, qrun>>
    /\ UNCHANGED besidesQueuer

\* for t in self.threads: t.join(), and the return of self.results
JoinThread ==
    /\ qpc.at = "join"
    /\ IF qpc.k > Len(threads)
       THEN qpc' = MainAt("returned", 0, "ok")
       ELSE /\ threads[qpc.k].pc = "done"
            /\ qpc' = MainAt("join", qpc.k + 1, "ok")
    /\ UNCHANGED <<thread_count, queue, global_kw, calls, results, threads, qrun>>
    /\ UNCHANGED besidesQueuer

\* thread_queue_func, queue.get_nowait(): an item, or Empty and the break
get_nowait(t) ==
    /\ threads[t].pc = "loop"
    /\ IF queue = <<>>
       THEN /\ threads' = [threads EXCEPT ![t].pc = "done"]
            /\ UNCHANGED queue
       ELSE /\ threads' = [threads EXCEPT ![t] = [pc |-> "call", item |-> Head(queue)]]
            /\ queue' = Tail(queue)
    /\ UNCHANGED <<thread_count, global_kw, calls, results, qpc, qrun>>
    /\ UNCHANGED besidesQueuer

Counted(run, i, st) ==
    [run EXCEPT !.execs[i + 1] = @ + 1, !.raised = @ \/ st # "ok"]

\* the index at which a worker stores the value of the call of item
SlotOf(item) == item.i + 1

\* thread_queue_func, result_list[i] = func(*args, **global_kwargs,
\* **kwargs): the value is stored, or the exception printed and the loop left
CallAndStore(t, item, out) ==
    /\ qrun' = Counted(qrun, item.i, out.st)
    /\ IF out.st = "ok"
       THEN /\ results' = [results EXCEPT ![SlotOf(item)] = out.val]
            /\ threads' = [threads EXCEPT ![t] = [pc |-> "loop", item |-> "None"]]
       ELSE /\ threads' = [threads EXCEPT ![t] = [pc |-> "done", item |-> "None"]]
            /\ UNCHANGED results

thread_queue_func(t) ==
    \/ get_nowait(t)
    \/ /\ threads[t].pc = "call"
       /\ CallAndStore(t, threads[t].item, Invoke(threads[t].item.call, global_kw))
       /\ UNCHANGED <<thread_count, queue, global_kw, calls, qpc>>
       /\ UNCHANGED besidesQueuer

Worker == \E t \in 1..Len(threads) : thread_queue_func(t)

NextQueuer ==
    \/ add_call \/ add_global_kw \/ pop_global_kw \/ clear_global_kw
    \/ _prepare \/ StartThread \/ JoinThread \/ Worker

SpecQueuer == InitQueuer /\ [][NextQueuer]_vars

\* run() has just returned and no call raised in it
RanClean == qpc.at = "returned" /\ ~qrun.raised

\* entry i is the value of the i-th added call, and it was called once
ResultsOfCalls ==
    /\ Len(results) = Len(calls)
    /\ \A i \in 1..Len(calls) :
          /\ results[i] = Invoke(calls[i], global_kw).val
          /\ qrun.execs[i] = 1

\* C18: when no call raises, run() returns a list in which entry i is the
\* return value of the i-th added call, and each added call is executed
\* exactly once in that run.
C18_RunReturnsResults == RanClean => ResultsOfCalls

\* The same for a run before which the queue was empty (as in the first run
\* of a Queuer).
RunOnEmptyQueueReturnsResults ==
    (RanClean /\ Len(qrun.execs) = qrun.queued) => ResultsOfCalls

\* a clean run of two threads over two calls, each thread having made one
RunOnEmptyQueueWitness ==
    /\ RanClean /\ Len(threads) = 2 /\ Len(calls) = 2 /\ qrun.n = 1
    /\ results[1] # results[2]

\* C30: when Queuer.run() returns, the work queue is empty: every call put
\* on the queue for that run has been taken and attempted by some worker
\* thread, also when some of the calls raise exceptions, so no call of one
\* run is left to be executed by a later run.
C30_QueueEmptyOnReturn == qpc.at = "returned" => queue = <<>>

\* What the code keeps: the queue is empty when run() returns and no call of
\* that run raised.
QueueEmptyAfterCleanRun == RanClean => queue = <<>>

\* a run that took over items of the run before it
LeftoversWitness ==
    /\ qpc.at = "returned" /\ qrun.n = 2 /\ qrun.queued > Len(qrun.execs)

----------------------------------------------------------------------------
(* partition_on_value (src/algo/Partition/__main__.py).  Indices are from  *)
(* 0 as in the code; the array holds integers and is changed in place.     *)

\* the longest array that is partitioned
MaxPart == 4

PartReturned(st, i, data) == [st |-> st, i |-> i, data |-> data]

\* while data[first_high] <= sep: first_high += 1, returning from the
\* function when first_high reaches highest (reported as -1)
RECURSIVE FirstHighUpTo(_, _, _, _)
FirstHighUpTo(data, sep, first_high, highest) ==
    IF Get(data, first_high) <= sep
    THEN IF first_high + 1 = highest THEN -1
         ELSE FirstHighUpTo(data, sep, first_high + 1, highest)
    ELSE first_high

\* while data[last_low] > sep: last_low -= 1, returning from the function
\* when last_low reaches lowest (reported as lowest)
RECURSIVE LastLowDownTo(_, _, _, _)
LastLowDownTo(data, sep, last_low, lowest) ==
    IF Get(data, last_low) > sep
    THEN IF last_low - 1 = lowest THEN lowest
         ELSE LastLowDownTo(data, sep, last_low - 1, lowest)
    ELSE last_low

\* the two inner loops of the swapping loop, which test no bound
RECURSIVE FirstHigh(_, _, _)
FirstHigh(data, sep, first_high) ==
    IF Get(data, first_high) <= sep THEN FirstHigh(data, sep, first_high + 1)
    ELSE first_high

RECURSIVE LastLow(_, _, _)
LastLow(data, sep, last_low) ==
    IF Get(data, last_low) > sep THEN LastLow(data, sep, last_low - 1)
    ELSE last_low

\* while first_high - last_low != 1: swap, advance both
RECURSIVE SwapLoop(_, _, _, _)
SwapLoop(data, sep, first_high, last_low) ==
    IF first_high - last_low # 1
    THEN SwapLoop(Swap(data, first_high, last_low), sep,
                  FirstHigh(Swap(data, first_high, last_low), sep, first_high),
                  LastLow(Swap(data, first_high, last_low), sep, last_low))
    ELSE PartReturned("ok", last_low, data)

\* the value returned when every value of the window is <= sep
AllLowReturn(start, end) == end - 1

AfterFirstHigh(data, sep, start, end, first_high) ==
    IF first_high = -1 THEN PartReturned("ok", AllLowReturn(start, end), data)
    ELSE IF LastLowDownTo(data, sep, end, start - 1) = start - 1
         THEN PartReturned("ok", start - 1, data)
         ELSE SwapLoop(data, sep, first_high,
                       LastLowDownTo(data, sep, end, start - 1))

partition_on_value(data, sep, start, end) ==
    IF start < 0 \/ end >= Len(data) THEN PartReturned("IndexError", -1, data)
    ELSE IF end # -1 /\ start > end THEN PartReturned("IndexError", -1, data)
    ELSE AfterFirstHigh(data, sep, start,
                        IF end = -1 THEN Len(data) - 1 ELSE end,
                        FirstHighUpTo(data, sep, start,
                                      (IF end = -1 THEN Len(data) - 1 ELSE end) + 1))

\* the non-empty arrays and the separators of the calls: every value of the
\* arrays, and one below and one above them all
PartArrays == UNION {[1..n -> Values] : n \in 1..MaxPart}
Separators == -1..(MaxValue + 1)

InitPartition ==
    /\ part_data \in PartArrays
    /\ part_sep \in Separators
    /\ part_ret = NoCall
    /\ TapeIdle /\ HeapIdle /\ QueuerIdle /\ ChunkIdle

\* i = partition_on_value(data, sep), as _test_partition calls it
PartitionCall ==
    /\ part_ret = NoCall
    /\ part_data' = partition_on_value(part_data, part_sep, 0, -1).data
    /\ part_ret' = [op |-> "partition",
                    st |-> partition_on_value(part_data, part_sep, 0, -1).st,
                    i |-> partition_on_value(part_data, part_sep, 0, -1).i,
                    before |-> part_data]
    /\ UNCHANGED part_sep
    /\ UNCHANGED besidesPart

NextPartition == PartitionCall

SpecPartition == InitPartition /\ [][NextPartition]_vars

\* data[:i+1] <= sep and data[i+1:] > sep
Partitioned(data, sep, i) ==
    /\ \A j \in 0..(Len(data) - 1) : j <= i => Get(data, j) <= sep
    /\ \A j \in 0..(Len(data) - 1) : j > i => Get(data, j) > sep

\* C19: partition_on_value(data, sep) permutes data in place and returns an
\* index i such that every element of data[:i+1] is <= sep and every element
\* of data[i+1:] is > sep.
C19_PartitionSeparates ==
    part_ret.op = "partition" =>
        /\ part_ret.st = "ok"
        /\ BagOfSeq(part_data) = BagOfSeq(part_ret.before)
        /\ Partitioned(part_data, part_sep, part_ret.i)

\* The same for the calls in which some value of the array is > sep.
PartitionSeparatesBelowMaximum ==
    (part_ret.op = "partition"
        /\ \E j \in 1..Len(part_ret.before) : part_ret.before[j] > part_sep) =>
        /\ part_ret.st = "ok"
        /\ BagOfSeq(part_data) = BagOfSeq(part_ret.before)
        /\ Partitioned(part_data, part_sep, part_ret.i)

\* a call that had to swap
PartitionSwapped == part_ret.op = "partition" /\ part_data # part_ret.before

----------------------------------------------------------------------------
(* windowed_chunked (src/collections/cls.py): a sliding window over an     *)
(* iterable.  self.iterable is the iterator, given by the elements it has  *)
(* still to produce; the generator _chunked_iter is suspended at its first *)
(* line, at the yield inside its for loop, or at its last yield.           *)

\* the longest iterable and the largest chunk size
MaxIter == 3
MaxChunk == 3

Frame(pc, items, item) == [pc |-> pc, items |-> items, item |-> item]

ChunkReturned(op, st, val) == [op |-> op, st |-> st, val |-> val, given |-> wret.given]

\* islice(self.iterable, self.size): the elements taken
Sliced(iterable, n) == SubSeq(iterable, 1, IF n < Len(iterable) THEN n ELSE Len(iterable))

\* the iterator after islice has taken them
AfterSlice(iterable, n) ==
    SubSeq(iterable, (IF n < Len(iterable) THEN n ELSE Len(iterable)) + 1, Len(iterable))

\* items.append(item) of a deque with maxlen
DequeAppend(items, item, maxlen) ==
    IF maxlen = 0 THEN <<>>
    ELSE IF Len(items) = maxlen THEN Append(Tail(items), item)
    ELSE Append(items, item)

\* tuple(empty_deque(items)): the values of the deque, which is left empty
empty_deque(d) == [popped |-> d, d |-> <<>>]

\* one round of `for item in self.iterable`, up to the next yield: inside the
\* loop while the iterator has an element, else the yield after the loop
ForItem(items, iterable) ==
    IF iterable # <<>>
    THEN /\ wself' = [wself EXCEPT !.iterable = Tail(iterable)]
         /\ wgen' = Frame("loop", items, Head(iterable))
         /\ wret' = ChunkReturned("next", "ok", items)
    ELSE /\ wself' = [wself EXCEPT !.iterable = iterable]
         /\ wgen' = Frame("last", empty_deque(items).d, "None")
         /\ wret' = ChunkReturned("next", "ok", empty_deque(items).popped)

\* the first next(): deque(islice(self.iterable, self.size), maxlen=self.size);
\* islice refuses a negative size
FirstNext ==
    IF wself.size < 0
    THEN /\ wgen' = Frame("done", <<>>, "None")
         /\ wret' = ChunkReturned("next", "ValueError", "None")
         /\ UNCHANGED wself
    ELSE ForItem(Sliced(wself.iterable, wself.size),
                 AfterSlice(wself.iterable, wself.size))

ChunkIterables == UNION {[1..n -> {0, 1}] : n \in 0..MaxIter}

\* windowed_chunked(iterable, chunk_size, skip)
InitChunk ==
    /\ \E iterable \in ChunkIterables, chunk_size \in -1..MaxChunk, skip \in {1, 2} :
          /\ wself = [size |-> chunk_size, iterable |-> iterable, skip |-> skip]
          /\ wret = [op |-> "init", st |-> "ok", val |-> "None", given |-> iterable]
    /\ wgen = Frame("none", <<>>, "None")
    /\ TapeIdle /\ HeapIdle /\ QueuerIdle /\ PartIdle

\* iter(self): _chunked_iter_skip() returns None, which iter() refuses
__iter__ ==
    /\ wgen.pc = "none" /\ wret.op = "init"
    /\ IF wself.skip > 1
       THEN /\ wret' = ChunkReturned("iter", "TypeError", "None")
            /\ UNCHANGED wgen
       ELSE /\ wret' = ChunkReturned("iter", "ok", "None")
            /\ wgen' = Frame("start", <<>>, "None")
    /\ UNCHANGED wself
    /\ UNCHANGED besidesChunk

\* next() of the generator _chunked_iter
_chunked_iter ==
    /\ wgen.pc \in {"start", "loop", "last"}
    /\ CASE wgen.pc = "start" -> FirstNext
         [] wgen.pc = "loop" ->
               ForItem(DequeAppend(wgen.items, wgen.item, wself.size),
                       wself.iterable)
         [] wgen.pc = "last" ->
               /\ wgen' = Frame("done", wgen.items, "None")
               /\ wret' = ChunkReturned("next", "StopIteration", "None")
               /\ UNCHANGED wself
    /\ UNCHANGED besidesChunk

NextChunk == __iter__ \/ _chunked_iter

SpecChunk == InitChunk /\ [][NextChunk]_vars

\* the iterable had fewer elements than the chunk size
TooShort == wret.op # "none" /\ Len(wret.given) < wself.size

\* C20: iterating windowed_chunked(iterable, n) over an iterable that has
\* fewer than n elements raises a ValueError.
C20_ShortIterableRaises ==
    (TooShort /\ wret.op = "next") => wret.st = "ValueError"

\* What the code does with such an iterable: it yields one tuple of all the
\* elements and stops.
ShortIterableYieldsAll ==
    (TooShort /\ wret.op = "next") =>
        \/ wgen.pc = "last" /\ wret.st = "ok" /\ wret.val = wret.given
        \/ wgen.pc = "done" /\ wret.st = "StopIteration"

\* A window of full size is made of consecutive elements of the iterable.
WindowsAreConsecutive ==
    (wret.op = "next" /\ wret.st = "ok" /\ ~TooShort) =>
        /\ Len(wret.val) = wself.size
        /\ \E k \in 0..Len(wret.given) :
              wret.val = SubSeq(wret.given, k + 1, k + wself.size)

=============================================================================
